---------------------------- MODULE Spec2Model ----------------------------
(***************************************************************************)
(* Coaching-conversation orchestrator of preflight-api: the pipeline       *)
(* execution engine (app/services/pipeline), the LLM client retry wrapper  *)
(* (app/services/llm) and the coaching session routes                      *)
(* (app/routes/coaching.py).                                               *)
(*                                                                         *)
(* Text is a sequence of tokens.  A token stands for a span of characters; *)
(* the tokens "harm", "phone", "email", "ssn", "card" and "dx" stand for   *)
(* spans matched by the corresponding regular expression of SafetyFilter,  *)
(* "w" for a span that no pattern matches.  Optional values (Python's      *)
(* Optional[T]) are sequences of length 0 (None) or 1.                     *)
(***************************************************************************)
EXTENDS Integers, Sequences, FiniteSets, TLC

VARIABLES session, more_sessions, turns, req, last, call, limiter, now,
          checked, redis_limiter, redis_db, redis_checked, runs,
          answer_rows, ran

vars ==
    <<session, more_sessions, turns, req, last, call, limiter, now, checked,
      redis_limiter, redis_db, redis_checked, runs, answer_rows, ran>>

\* The variables of the coaching routes and the engine.
coachingVars == <<session, more_sessions, turns, req, last>>

\* The variable of the applications of the pure functions.
functionVars == <<call>>

\* The variables of the Redis-backed rate limiter.
redisVars == <<redis_limiter, redis_db, redis_checked>>

\* The variables of the rate limiters.
limiterVars == <<limiter, now, checked, redisVars>>

\* The variables of the survey runs and their answers.
runVars == <<runs, answer_rows, ran>>

None == <<>>

Some(x) == <<x>>

\* Python truthiness of an Optional[str]: None and "" are falsy.
Truthy(opt) == opt # None /\ opt[1] # <<>>

\* ------------------------------------------------------------------------
\* Bounds
\* ------------------------------------------------------------------------

\* Number of request slots (clients that may have a request in flight).
NumClients == 2

Reqs == 1..NumClients

\* Longest user input handed to check_input on its own.
MaxInputLen == 2

\* Longest template handed to the template engine on its own.
MaxTemplateLen == 3

\* Number of check_rate_limit calls made on one limiter.
MaxCalls == 4

\* Number of runs created, and of requests made to the run routes.
NumRuns == 2

MaxRunOps == 4

\* Largest token count of a response handed to estimated_cost_usd.
MaxTokens == 3

\* ------------------------------------------------------------------------
\* Program constants
\* ------------------------------------------------------------------------

\* max_rounds given to every session by start_coaching.
MaxRounds == 4

\* current_round given to every session by start_coaching.
InitialRound == 1

\* stop_after_attempt(3) of the retry decorator.
StopAfterAttempt == 3

\* ------------------------------------------------------------------------
\* Safety filter (app/services/pipeline/safety.py)
\* ------------------------------------------------------------------------

HARMFUL_PATTERNS == {"harm"}

\* In the order of PERSONAL_INFO_PATTERNS: phone, email, SSN, card.
PERSONAL_INFO_PATTERNS == <<"phone", "email", "ssn", "card">>

MEDICAL_DIAGNOSIS_PATTERNS == {"dx"}

SAFETY_SYSTEM_PROMPT == <<"SAFETY_SYSTEM_PROMPT">>

\* pattern.search(content)
Search(pattern, content) == \E i \in 1..Len(content) : content[i] = pattern

\* pattern.sub("[REDACTED]", content)
Sub(pattern, content) ==
    [i \in 1..Len(content) |->
        IF content[i] = pattern THEN "[REDACTED]" ELSE content[i]]

SafetyCheckResult(safe, vt, msg, redacted) ==
    [is_safe |-> safe, violation_type |-> vt, message |-> msg,
     redacted_content |-> redacted]

\* Index of the first personal-info pattern that matches, 0 when none does.
FirstPersonalMatch(content) ==
    IF \E k \in 1..Len(PERSONAL_INFO_PATTERNS) :
           Search(PERSONAL_INFO_PATTERNS[k], content)
    THEN CHOOSE k \in 1..Len(PERSONAL_INFO_PATTERNS) :
           /\ Search(PERSONAL_INFO_PATTERNS[k], content)
           /\ \A j \in 1..(k - 1) : ~Search(PERSONAL_INFO_PATTERNS[j], content)
    ELSE 0

\* check_input looking for personal information before harmful content.
check_input_PersonalFirst(content) ==
    IF FirstPersonalMatch(content) # 0
    THEN SafetyCheckResult(TRUE, "personal_info",
             Some(<<"Personal information detected and redacted">>),
             Some(Sub(PERSONAL_INFO_PATTERNS[FirstPersonalMatch(content)],
                      content)))
    ELSE IF \E p \in HARMFUL_PATTERNS : Search(p, content)
    THEN SafetyCheckResult(FALSE, "harmful_content",
                           Some(<<"Content flagged for safety review">>), None)
    ELSE SafetyCheckResult(TRUE, "none", None, None)

check_input(content) ==
    IF \E p \in HARMFUL_PATTERNS : Search(p, content)
    THEN SafetyCheckResult(FALSE, "harmful_content",
                           Some(<<"Content flagged for safety review">>), None)
    ELSE IF FirstPersonalMatch(content) # 0
    THEN SafetyCheckResult(TRUE, "personal_info",
             Some(<<"Personal information detected and redacted">>),
             Some(Sub(PERSONAL_INFO_PATTERNS[FirstPersonalMatch(content)],
                      content)))
    ELSE SafetyCheckResult(TRUE, "none", None, None)

check_output(content) ==
    IF \E p \in MEDICAL_DIAGNOSIS_PATTERNS : Search(p, content)
    THEN SafetyCheckResult(FALSE, "medical_advice",
             Some(<<"Response contains potential medical advice">>), None)
    ELSE SafetyCheckResult(TRUE, "none", None, None)

get_safety_system_prompt == SAFETY_SYSTEM_PROMPT

get_fallback_response(violation_type) ==
    CASE violation_type = "medical_advice" -> Some(<<"FALLBACK_MEDICAL_ADVICE">>)
      [] violation_type = "harmful_content" -> Some(<<"FALLBACK_HARMFUL_CONTENT">>)
      [] violation_type = "off_topic" -> Some(<<"FALLBACK_OFF_TOPIC">>)
      [] OTHER -> None

\* ------------------------------------------------------------------------
\* Template engine (app/services/pipeline/template.py)
\* ------------------------------------------------------------------------

\* Python values held by a template context.  A dict holds its items as a
\* sequence of <<key, value>> pairs in insertion order, a list its elements.
PyNone == [type |-> "NoneType", value |-> <<>>]

PyStr(text) == [type |-> "str", value |-> text]

PyBool(b) == [type |-> "bool", value |-> b]

PyInt(n) == [type |-> "int", value |-> n]

PyList(elements) == [type |-> "list", value |-> elements]

PyDict(items) == [type |-> "dict", value |-> items]

\* dict.get(key): the value of the key, None when the key is absent.
DictGet(d, key) ==
    IF \E i \in 1..Len(d.value) : d.value[i][1] = key
    THEN d.value[CHOOSE i \in 1..Len(d.value) : d.value[i][1] = key][2]
    ELSE PyNone

\* d[key] = value: replaces the value of a present key in place, appends an
\* absent key.
DictSet(d, key, value) ==
    IF \E i \in 1..Len(d.value) : d.value[i][1] = key
    THEN PyDict([i \in 1..Len(d.value) |->
                    IF d.value[i][1] = key THEN <<key, value>> ELSE d.value[i]])
    ELSE PyDict(Append(d.value, <<key, value>>))

\* sep.join(texts)
RECURSIVE Join(_, _)
Join(texts, sep) ==
    IF texts = <<>> THEN <<>>
    ELSE IF Len(texts) = 1 THEN texts[1]
    ELSE texts[1] \o sep \o Join(Tail(texts), sep)

\* list(dict.fromkeys(items)): the items without repetitions, each at the
\* place of its first occurrence.
RECURSIVE Unique(_)
Unique(items) ==
    IF items = <<>> THEN <<>>
    ELSE LET init == Unique(SubSeq(items, 1, Len(items) - 1))
             x == items[Len(items)]
         IN IF \E i \in 1..Len(init) : init[i] = x THEN init
            ELSE Append(init, x)

\* The text between "{{" and "}}" of a token of that form, as the sequence
\* of its words (runs of letters, digits and underscores) and dots; None
\* for a token of another form.
Inner(token) ==
    CASE token = "{{survey_responses}}" -> Some(<<"survey_responses">>)
      [] token = "{{user}}" -> Some(<<"user">>)
      [] token = "{{user.name}}" -> Some(<<"user", ".", "name">>)
      [] token = "{{missing}}" -> Some(<<"missing">>)
      [] token = "{{a..b}}" -> Some(<<"a", ".", ".", "b">>)
      [] token = "{{a.}}" -> Some(<<"a", ".">>)
      [] token = "{{1x}}" -> Some(<<"1x">>)
      [] OTHER -> None

\* The words that begin with a digit.
DigitFirst == {"1x"}

\* [a-zA-Z_][a-zA-Z0-9_.]* matching the whole of inner: the first character
\* is a letter or an underscore, the others are letters, digits,
\* underscores or dots in any order.
VARIABLE_PATTERN(inner) ==
    /\ inner # <<>>
    /\ inner[1] # "."
    /\ inner[1] \notin DigitFirst

\* VARIABLE_PATTERN: group 1 of the match when the token is a placeholder
\* (None when the pattern does not match the token).  A variable path is
\* written as the sequence of its names and dots.
VariablePath(token) ==
    IF Inner(token) # None /\ VARIABLE_PATTERN(Inner(token)[1])
    THEN Inner(token)
    ELSE None

\* path.split("."), for a path in which names and dots alternate or dots
\* follow each other.
RECURSIVE Split(_)
Split(path) ==
    IF path = <<>> THEN <<"">>
    ELSE IF Head(path) = "." THEN <<"">> \o Split(Tail(path))
    ELSE IF Len(path) = 1 THEN <<Head(path)>>
    ELSE <<Head(path)>> \o Split(Tail(Tail(path)))

\* The loop of _get_nested_value over the parts of the path.
RECURSIVE GetNested(_, _)
GetNested(current, parts) ==
    IF parts = <<>> THEN current
    ELSE IF current.type # "dict" THEN PyNone
    ELSE IF DictGet(current, Head(parts)).type = "NoneType" THEN PyNone
    ELSE GetNested(DictGet(current, Head(parts)), Tail(parts))

\* Value at the path, None if not found.
_get_nested_value(data, path) == GetNested(data, Split(path))

\* repr() of an element of a list that is not a list of strings.
Repr(value) ==
    CASE value.type = "str" -> <<"'">> \o value.value \o <<"'">>
      [] value.type = "bool" -> IF value.value THEN <<"True">> ELSE <<"False">>
      [] value.type = "int" -> <<ToString(value.value)>>
      [] OTHER -> <<"None">>

RECURSIVE _format_value(_)
_format_value(value) ==
    CASE value.type = "bool" -> IF value.value THEN <<"yes">> ELSE <<"no">>
      [] value.type = "list" ->
            IF \A i \in 1..Len(value.value) : value.value[i].type = "str"
            THEN Join([i \in 1..Len(value.value) |-> value.value[i].value],
                      <<", ">>)
            ELSE <<"[">>
                 \o Join([i \in 1..Len(value.value) |-> Repr(value.value[i])],
                         <<", ">>)
                 \o <<"]">>
      [] value.type = "dict" ->
            Join([i \in 1..Len(value.value) |->
                     <<"- ", value.value[i][1], ": ">>
                     \o _format_value(value.value[i][2])],
                 <<"\n">>)
      [] value.type = "str" -> value.value
      [] value.type = "int" -> <<ToString(value.value)>>
      [] OTHER -> <<"None">>

\* substitute replacing an unresolved placeholder by the empty string.
RECURSIVE substitute_Blank(_, _)
substitute_Blank(template, variables) ==
    IF template = <<>> THEN <<>>
    ELSE LET tok == Head(template)
             rest == substitute_Blank(Tail(template), variables)
             path == VariablePath(tok)
         IN IF path = None THEN <<tok>> \o rest
            ELSE IF _get_nested_value(variables, path[1]).type = "NoneType"
                 THEN rest
                 ELSE _format_value(_get_nested_value(variables, path[1]))
                      \o rest

\* substitute scanning the inserted values for placeholders as well.
RECURSIVE substitute_Rescan(_, _)
substitute_Rescan(template, variables) ==
    IF template = <<>> THEN <<>>
    ELSE LET tok == Head(template)
             rest == substitute_Rescan(Tail(template), variables)
             path == VariablePath(tok)
         IN IF path = None THEN <<tok>> \o rest
            ELSE IF _get_nested_value(variables, path[1]).type = "NoneType"
                 THEN <<tok>> \o rest
                 ELSE substitute_Rescan(
                          _format_value(_get_nested_value(variables, path[1])),
                          variables)
                      \o rest

\* VARIABLE_PATTERN.sub(replace_var, template): one pass over the template,
\* each placeholder replaced by the formatted value at its path, or kept
\* when the value is None.
RECURSIVE substitute(_, _)
substitute(template, variables) ==
    IF template = <<>> THEN <<>>
    ELSE LET tok == Head(template)
             rest == substitute(Tail(template), variables)
             path == VariablePath(tok)
         IN IF path = None THEN <<tok>> \o rest
            ELSE IF _get_nested_value(variables, path[1]).type = "NoneType"
                 THEN <<tok>> \o rest
                 ELSE _format_value(_get_nested_value(variables, path[1]))
                      \o rest

\* VARIABLE_PATTERN.findall(template): the paths of the placeholders of the
\* template, in the order of the text.
RECURSIVE findall(_)
findall(template) ==
    IF template = <<>> THEN <<>>
    ELSE VariablePath(Head(template)) \o findall(Tail(template))

\* extract_variables returning every occurrence.
extract_variables_Repeated(template) == findall(template)

extract_variables(template) == Unique(findall(template))

\* SurveyResponseFormatter.format_answers: the answers grouped by page.
format_answers(answers) ==
    IF answers = <<>> THEN <<"No survey responses recorded.">>
    ELSE LET pages == Unique([i \in 1..Len(answers) |-> answers[i].page_id])
             Fields(page) == SelectSeq(answers, LAMBDA a : a.page_id = page)
             PageLines(page) ==
                 << <<"\n", page, ":">> >>
                 \o [i \in 1..Len(Fields(page)) |->
                        <<"  - ", Fields(page)[i].field_name, ": ">>
                        \o _format_value(Fields(page)[i].value)]
             RECURSIVE Lines(_)
             Lines(ps) == IF ps = <<>> THEN <<>>
                          ELSE PageLines(Head(ps)) \o Lines(Tail(ps))
         IN Join(<< <<"Survey Responses:">> >> \o Lines(pages), <<"\n">>)

\* The loop of create_context that files each answer under its page.
RECURSIVE AnswersByPage(_)
AnswersByPage(answers) ==
    IF answers = <<>> THEN PyDict(<<>>)
    ELSE LET init == AnswersByPage(SubSeq(answers, 1, Len(answers) - 1))
             a == answers[Len(answers)]
             page == IF DictGet(init, a.page_id).type = "NoneType"
                     THEN PyDict(<<>>)
                     ELSE DictGet(init, a.page_id)
         IN DictSet(init, a.page_id, DictSet(page, a.field_name, a.value))

\* SurveyResponseFormatter.create_context without user_info; session_info
\* is added when it is truthy (a non-empty dict).
create_context(answers, session_info) ==
    LET context == PyDict(<< <<"survey_responses",
                               PyStr(format_answers(answers))>>,
                             <<"answers", AnswersByPage(answers)>> >>)
    IN IF session_info.type = "dict" /\ session_info.value # <<>>
       THEN DictSet(context, "session", session_info)
       ELSE context


\* ------------------------------------------------------------------------
\* LLM types (app/services/llm/base.py)
\* ------------------------------------------------------------------------

MessageRole == {"system", "user", "assistant"}

Message(role, content) == [role |-> role, content |-> content]

LLMResponse(content, model, provider, prompt_tokens, completion_tokens) ==
    [content |-> content, model |-> model, provider |-> provider,
     prompt_tokens |-> prompt_tokens,
     completion_tokens |-> completion_tokens,
     total_tokens |-> prompt_tokens + completion_tokens]

\* A model name is the sequence of its characters.  str.lower():
UpperCase ==
    <<"A", "B", "C", "D", "E", "F", "G", "H", "I", "J", "K", "L", "M", "N",
      "O", "P", "Q", "R", "S", "T", "U", "V", "W", "X", "Y", "Z">>

LowerCase ==
    <<"a", "b", "c", "d", "e", "f", "g", "h", "i", "j", "k", "l", "m", "n",
      "o", "p", "q", "r", "s", "t", "u", "v", "w", "x", "y", "z">>

RECURSIVE lower(_)
lower(text) ==
    IF text = <<>> THEN <<>>
    ELSE LET c == Head(text)
             upper == {k \in 1..Len(UpperCase) : UpperCase[k] = c}
         IN <<IF upper # {} THEN LowerCase[CHOOSE k \in upper : TRUE] ELSE c>>
            \o lower(Tail(text))

\* key in text: the key is a substring of the text.
In(key, text) ==
    \E i \in 0..(Len(text) - Len(key)) :
        \A j \in 1..Len(key) : text[i + j] = key[j]

\* The price table with the entry of gpt-4 placed first.
pricing_GenericFirst ==
    << << <<"g", "p", "t", "-", "4">>,
         <<3000, 6000>> >>,
       << <<"g", "p", "t", "-", "4", "-", "t", "u", "r", "b", "o">>,
         <<1000, 3000>> >>,
       << <<"g", "p", "t", "-", "4", "o", "-", "m", "i", "n", "i">>,
         <<15, 60>> >>,
       << <<"g", "p", "t", "-", "4", "o">>,
         <<250, 1000>> >>,
       << <<"g", "p", "t", "-", "3", ".", "5", "-", "t", "u", "r", "b", "o">>,
         <<50, 150>> >>,
       << <<"c", "l", "a", "u", "d", "e", "-", "3", "-", "5", "-", "s", "o",
           "n", "n", "e", "t">>,
         <<300, 1500>> >>,
       << <<"c", "l", "a", "u", "d", "e", "-", "3", "-", "5", "-", "h", "a",
           "i", "k", "u">>,
         <<25, 125>> >>,
       << <<"c", "l", "a", "u", "d", "e", "-", "3", "-", "s", "o", "n", "n",
           "e", "t">>,
         <<300, 1500>> >>,
       << <<"c", "l", "a", "u", "d", "e", "-", "3", "-", "h", "a", "i", "k",
           "u">>,
         <<25, 125>> >>,
       << <<"c", "l", "a", "u", "d", "e", "-", "3", "-", "o", "p", "u", "s">>,
         <<1500, 7500>> >> >>

\* The price table of estimated_cost_usd, in its order: per key the prices
\* of (input, output) per million tokens, in hundredths of a dollar.
pricing ==
    << << <<"g", "p", "t", "-", "4", "-", "t", "u", "r", "b", "o">>,
         <<1000, 3000>> >>,
       << <<"g", "p", "t", "-", "4", "o", "-", "m", "i", "n", "i">>,
         <<15, 60>> >>,
       << <<"g", "p", "t", "-", "4", "o">>,
         <<250, 1000>> >>,
       << <<"g", "p", "t", "-", "4">>,
         <<3000, 6000>> >>,
       << <<"g", "p", "t", "-", "3", ".", "5", "-", "t", "u", "r", "b", "o">>,
         <<50, 150>> >>,
       << <<"c", "l", "a", "u", "d", "e", "-", "3", "-", "5", "-", "s", "o",
           "n", "n", "e", "t">>,
         <<300, 1500>> >>,
       << <<"c", "l", "a", "u", "d", "e", "-", "3", "-", "5", "-", "h", "a",
           "i", "k", "u">>,
         <<25, 125>> >>,
       << <<"c", "l", "a", "u", "d", "e", "-", "3", "-", "s", "o", "n", "n",
           "e", "t">>,
         <<300, 1500>> >>,
       << <<"c", "l", "a", "u", "d", "e", "-", "3", "-", "h", "a", "i", "k",
           "u">>,
         <<25, 125>> >>,
       << <<"c", "l", "a", "u", "d", "e", "-", "3", "-", "o", "p", "u", "s">>,
         <<1500, 7500>> >> >>

\* "Default fallback", in hundredths of a dollar per million tokens.
DefaultPrices == <<1000, 3000>>

\* The prices of the first key of the table that the lower-cased model name
\* contains, the default prices when there is none.
PricesOf(model) ==
    LET model_lower == lower(model)
        matching == {k \in 1..Len(pricing) : In(pricing[k][1], model_lower)}
    IN IF matching # {}
       THEN pricing[CHOOSE k \in matching : \A j \in matching : k <= j][2]
       ELSE DefaultPrices

\* LLMResponse.estimated_cost_usd, in units of 10^-8 dollars (the prices
\* are multiples of 0.01 dollars per million tokens).  The code computes in
\* floating point, whose division, multiplication by a positive constant
\* and addition are monotonic.
estimated_cost_usd(llm_response) ==
    LET prices == PricesOf(llm_response.model)
    IN llm_response.prompt_tokens * prices[1]
       + llm_response.completion_tokens * prices[2]

\* Model names: those of the repository, one with capitals and one that no
\* key of the table matches.
ModelNames ==
    {<<"g", "p", "t", "-", "4", "-", "t", "u", "r", "b", "o">>,
     <<"g", "p", "t", "-", "4", "o">>,
     <<"g", "p", "t", "-", "4", "o", "-", "m", "i", "n", "i">>,
     <<"g", "p", "t", "-", "4">>,
     <<"g", "p", "t", "-", "3", ".", "5", "-", "t", "u", "r", "b", "o">>,
     <<"c", "l", "a", "u", "d", "e", "-", "3", "-", "5", "-", "s", "o",
         "n", "n", "e", "t", "-", "2", "0", "2", "4", "1", "0", "2", "2">>,
     <<"c", "l", "a", "u", "d", "e", "-", "3", "-", "h", "a", "i", "k",
         "u", "-", "2", "0", "2", "4", "0", "3", "0", "7">>,
     <<"G", "P", "T", "-", "4", "-", "T", "u", "r", "b", "o", "-", "P",
         "r", "e", "v", "i", "e", "w">>,
     <<"l", "l", "a", "m", "a", "-", "3", "-", "7", "0", "b">>}

\* estimated_cost_usd * 1_000_000 for the gpt-4-turbo rate pair (10, 30)
\* dollars per million tokens, which is also the default pair.
CostMicrodollars(llm_response) ==
    llm_response.prompt_tokens * 10 + llm_response.completion_tokens * 30

\* ------------------------------------------------------------------------
\* Pipeline engine (app/services/pipeline/engine.py)
\* ------------------------------------------------------------------------

PipelineExecutionResult(success, response, llm_response, safety_check, error, used_fallback) ==
    [success |-> success, response |-> response,
     llm_response |-> llm_response, safety_check |-> safety_check,
     error |-> error, used_fallback |-> used_fallback]

\* The history turns converted to messages; MessageRole(turn["role"]) raises
\* ValueError for a role that is not a member of the enumeration.
HistoryRaises(conversation_history) ==
    \E i \in 1..Len(conversation_history) :
        conversation_history[i].role \notin MessageRole

\* build_messages placing the pipeline's system prompt before the safety
\* prompt.
build_messages_SystemFirst(pipeline, context, conversation_history, user_message) ==
    LET safety == <<Message("system", get_safety_system_prompt)>>
        system == IF pipeline.system_prompt # <<>>
                  THEN <<Message("system",
                                 substitute(pipeline.system_prompt, context))>>
                  ELSE <<>>
        hist == [i \in 1..Len(conversation_history) |->
                    Message(conversation_history[i].role,
                            conversation_history[i].content)]
    IN [raised |-> HistoryRaises(conversation_history),
        messages |-> IF HistoryRaises(conversation_history) THEN <<>>
                     ELSE system \o safety \o hist
                          \o <<Message("user", user_message)>>]

build_messages(pipeline, context, conversation_history, user_message) ==
    LET safety == <<Message("system", get_safety_system_prompt)>>
        system == IF pipeline.system_prompt # <<>>
                  THEN <<Message("system",
                                 substitute(pipeline.system_prompt, context))>>
                  ELSE <<>>
        hist == [i \in 1..Len(conversation_history) |->
                    Message(conversation_history[i].role,
                            conversation_history[i].content)]
    IN [raised |-> HistoryRaises(conversation_history),
        messages |-> IF HistoryRaises(conversation_history) THEN <<>>
                     ELSE safety \o system \o hist
                          \o <<Message("user", user_message)>>]

\* ExecuteRoundPlan without the early return for harmful content.
ExecuteRoundPlan_NoBypass(pipeline, context, conversation_history, user_message) ==
    LET input_check == check_input(user_message)
        clean_message == IF Truthy(input_check.redacted_content)
                         THEN input_check.redacted_content[1]
                         ELSE user_message
        built == build_messages(pipeline, context, conversation_history,
                                clean_message)
    IN IF built.raised
       THEN [step |-> "raise",
             result |-> PipelineExecutionResult(FALSE, None, None, None, None,
                                                FALSE),
             messages |-> <<>>]
       ELSE [step |-> "call",
             result |-> PipelineExecutionResult(FALSE, None, None, None, None,
                                                FALSE),
             messages |-> built.messages]

\* ExecuteRoundPlan building the messages from the raw user message.
ExecuteRoundPlan_RawMessage(pipeline, context, conversation_history, user_message) ==
    LET input_check == check_input(user_message)
        built == build_messages(pipeline, context, conversation_history,
                                user_message)
    IN IF ~input_check.is_safe /\ input_check.violation_type = "harmful_content"
       THEN [step |-> "return",
             result |-> PipelineExecutionResult(TRUE,
                            get_fallback_response(input_check.violation_type),
                            None, Some(input_check), None, TRUE),
             messages |-> <<>>]
       ELSE IF built.raised
       THEN [step |-> "raise",
             result |-> PipelineExecutionResult(FALSE, None, None, None, None,
                                                FALSE),
             messages |-> <<>>]
       ELSE [step |-> "call",
             result |-> PipelineExecutionResult(FALSE, None, None, None, None,
                                                FALSE),
             messages |-> built.messages]

\* execute_round up to the point where it either returns the harmful-content
\* fallback ("return"), lets the ValueError of build_messages propagate
\* ("raise"), or calls llm_service.generate_response ("call").
ExecuteRoundPlan(pipeline, context, conversation_history, user_message) ==
    LET input_check == check_input(user_message)
        clean_message == IF Truthy(input_check.redacted_content)
                         THEN input_check.redacted_content[1]
                         ELSE user_message
        built == build_messages(pipeline, context, conversation_history,
                                clean_message)
    IN IF ~input_check.is_safe /\ input_check.violation_type = "harmful_content"
       THEN [step |-> "return",
             result |-> PipelineExecutionResult(TRUE,
                            get_fallback_response(input_check.violation_type),
                            None, Some(input_check), None, TRUE),
             messages |-> <<>>]
       ELSE IF built.raised
       THEN [step |-> "raise",
             result |-> PipelineExecutionResult(FALSE, None, None, None, None,
                                                FALSE),
             messages |-> <<>>]
       ELSE [step |-> "call",
             result |-> PipelineExecutionResult(FALSE, None, None, None, None,
                                                FALSE),
             messages |-> built.messages]

\* ExecuteRoundTry returning the model content without the output check
\* deciding the response.
ExecuteRoundTry_Unscreened(llm) ==
    IF llm.kind = "raise"
    THEN PipelineExecutionResult(FALSE, None, None, None, Some(llm.error),
                                 FALSE)
    ELSE PipelineExecutionResult(TRUE, Some(llm.response[1].content),
                                 llm.response,
                                 Some(check_output(llm.response[1].content)),
                                 None, FALSE)

\* ExecuteRoundTry answering an LLM failure with the canned fallback of the
\* medical redirect instead of a failure result.
ExecuteRoundTry_FallbackOnError(llm) ==
    IF llm.kind = "raise"
    THEN PipelineExecutionResult(FALSE, get_fallback_response("medical_advice"),
                                 None, None, Some(llm.error), TRUE)
    ELSE LET llm_response == llm.response[1]
             output_check == check_output(llm_response.content)
             fallback == get_fallback_response(output_check.violation_type)
         IN IF ~output_check.is_safe /\ Truthy(fallback)
            THEN PipelineExecutionResult(TRUE, fallback, Some(llm_response),
                                         Some(output_check), None, TRUE)
            ELSE PipelineExecutionResult(TRUE, Some(llm_response.content),
                                         Some(llm_response),
                                         Some(output_check), None, FALSE)

\* The try block of execute_round, given the outcome llm of
\* generate_response: [kind |-> "ok", response |-> ...] or
\* [kind |-> "raise", error |-> ...].
ExecuteRoundTry(llm) ==
    IF llm.kind = "raise"
    THEN PipelineExecutionResult(FALSE, None, None, None, Some(llm.error),
                                 FALSE)
    ELSE LET llm_response == llm.response[1]
             output_check == check_output(llm_response.content)
             fallback == get_fallback_response(output_check.violation_type)
         IN IF ~output_check.is_safe /\ Truthy(fallback)
            THEN PipelineExecutionResult(TRUE, fallback, Some(llm_response),
                                         Some(output_check), None, TRUE)
            ELSE PipelineExecutionResult(TRUE, Some(llm_response.content),
                                         Some(llm_response),
                                         Some(output_check), None, FALSE)

\* The built-in instruction used when the pipeline has no initial prompt.
DEFAULT_INITIAL_PROMPT == <<"DEFAULT_INITIAL_PROMPT">>

\* InitialMessages without the built-in instruction.
InitialMessages_NoDefault(pipeline, context) ==
    LET substituted == substitute(pipeline.initial_prompt, context)
        system == IF pipeline.system_prompt # <<>>
                  THEN <<Message("system",
                                 substitute(pipeline.system_prompt, context))>>
                  ELSE <<>>
    IN <<Message("system", get_safety_system_prompt)>> \o system
       \o <<Message("user", substituted)>>

\* generate_initial_message up to its call of generate_response: the
\* messages it sends.  Nothing on this path raises.

InitialMessages(pipeline, context) ==
    LET initial_prompt == IF pipeline.initial_prompt # <<>>
                          THEN pipeline.initial_prompt
                          ELSE DEFAULT_INITIAL_PROMPT
        substituted == substitute(initial_prompt, context)
        system == IF pipeline.system_prompt # <<>>
                  THEN <<Message("system",
                                 substitute(pipeline.system_prompt, context))>>
                  ELSE <<>>
    IN <<Message("system", get_safety_system_prompt)>> \o system
       \o <<Message("user", substituted)>>

\* The try block of generate_initial_message.
GenerateInitialTry(llm) ==
    IF llm.kind = "raise"
    THEN PipelineExecutionResult(FALSE, None, None, None, Some(llm.error),
                                 FALSE)
    ELSE PipelineExecutionResult(TRUE, Some(llm.response[1].content),
                                 llm.response, None, None, FALSE)

\* create_context_from_run: the context built from the answers of a run
\* (no run_metadata is passed by the routes).
create_context_from_run(answers) == create_context(answers, PyNone)


\* ------------------------------------------------------------------------
\* LLM clients (app/services/llm/openai_client.py, anthropic_client.py)
\* ------------------------------------------------------------------------

LLMProvider == {"openai", "anthropic"}

\* Exception classes of the provider SDK that derive from its APIError
\* (RateLimitError, AuthenticationError and BadRequestError are subclasses).
SdkAPIErrors ==
    {"sdk.RateLimitError", "sdk.AuthenticationError", "sdk.BadRequestError",
     "sdk.APIError"}

\* What one provider call (chat.completions.create / messages.create and
\* the unpacking of its response) can do: return, raise an SDK error, or
\* raise something that is not an SDK APIError.
ProviderOutcomes == {"ok"} \cup SdkAPIErrors \cup {"Exception"}

\* AnthropicClient._convert_messages: the system prompt (None without a
\* system message) and the other messages as role/content dicts.
_convert_messages(messages) ==
    LET systems == SelectSeq(messages, LAMBDA msg : msg.role = "system")
    IN [system_prompt |-> IF systems = <<>> THEN None
                          ELSE Some(systems[Len(systems)].content),
        anthropic_messages |->
            SelectSeq(messages, LAMBDA msg : msg.role # "system")]

\* The keyword arguments of the provider call that hold the conversation:
\* messages.create(system=..., messages=...) of the Anthropic client (system
\* only when the prompt is truthy), chat.completions.create(messages=...) of
\* the OpenAI client (every message inline, by Message.to_dict).
ProviderRequest(provider, messages) ==
    IF provider = "anthropic"
    THEN [system |-> IF Truthy(_convert_messages(messages).system_prompt)
                     THEN _convert_messages(messages).system_prompt
                     ELSE None,
          messages |-> _convert_messages(messages).anthropic_messages]
    ELSE [system |-> None, messages |-> messages]

LLMException(class, message, provider, status_code, retry_after) ==
    [class |-> class, message |-> message, provider |-> provider,
     status_code |-> status_code, retry_after |-> retry_after]

\* The except clauses of generate_response: the exception that leaves the
\* function body when the provider call raised an exception of class sdk.
\* str(e) of the raised error is the text of the SDK error.
ConvertException(provider, sdk) ==
    CASE sdk = "sdk.RateLimitError" ->
            LLMException("RateLimitError", <<sdk>>, Some(provider), Some(429),
                         Some(60))
      [] sdk = "sdk.AuthenticationError" ->
            LLMException("AuthenticationError", <<sdk>>, Some(provider),
                         Some(401), None)
      [] sdk = "sdk.BadRequestError" ->
            LLMException("InvalidRequestError", <<sdk>>, Some(provider),
                         Some(400), None)
      [] sdk = "sdk.APIError" ->
            LLMException("LLMError", <<sdk>>, Some(provider), Some(500), None)
      [] OTHER -> LLMException(sdk, <<sdk>>, None, None, None)

\* RetryPredicate retrying on every error class of the application.
RetryPredicate_Converted(exc) ==
    exc.class \in {"RateLimitError", "AuthenticationError",
                   "InvalidRequestError", "LLMError"}

\* retry_if_exception_type((SdkRateLimitError, APIError)) applied to the
\* exception that left the function body.
RetryPredicate(exc) == exc.class \in SdkAPIErrors

\* tenacity's decision after a call that raised exc on attempt number
\* attempt: "retry", "raise" (exc itself, not retryable) or "retry_error"
\* (attempts exhausted; tenacity raises RetryError as reraise is not set).
RetryDecision(exc, attempt) ==
    IF ~RetryPredicate(exc) THEN "raise"
    ELSE IF attempt >= StopAfterAttempt THEN "retry_error"
    ELSE "retry"

\* Contents the model may return: plain text or text with diagnosis language.
LLMContents == {<<"w">>, <<"dx">>}


\* ------------------------------------------------------------------------
\* In-memory rate limiter (app/middleware/rate_limit.py)
\* ------------------------------------------------------------------------
\* Time is counted in ticks of half a second, so that the clock takes values
\* between whole seconds.

TicksPerSecond == 2

\* _cleanup_interval and the age past which an entry is removed, in seconds.
CleanupInterval == 300

CleanupAge == 3600

RateLimitEntry(count, window_start) ==
    [count |-> count, window_start |-> window_start]

\* InMemoryRateLimiter() constructed at time t.
InMemoryRateLimiter(t) ==
    [_limits |-> [k \in {} |-> RateLimitEntry(0, 0)], _last_cleanup |-> t]

\* _cleanup_old_entries at time t.
_cleanup_old_entries(self, t) ==
    IF t - self._last_cleanup < CleanupInterval * TicksPerSecond THEN self
    ELSE [_limits |->
             [k \in {j \in DOMAIN self._limits :
                        ~(t - self._limits[j].window_start
                            > CleanupAge * TicksPerSecond)}
                |-> self._limits[k]],
          _last_cleanup |-> t]

\* self._limits[key] of the defaultdict at time t: a missing key gets a new
\* entry.
EntryOf(self, key, t) ==
    IF key \in DOMAIN self._limits THEN self._limits[key]
    ELSE RateLimitEntry(0, t)

\* "Reset window if expired".
ResetWindow(entry, t, window_seconds) ==
    IF t - entry.window_start >= window_seconds * TicksPerSecond
    THEN RateLimitEntry(0, t)
    ELSE entry

\* int(x) of a non-negative number of ticks x, in seconds.
IntSeconds(ticks) == ticks \div TicksPerSecond

\* CheckLimit admitting a call while count <= max_requests.
CheckLimit_OffByOne(entry, t, max_requests, window_seconds) ==
    IF entry.count > max_requests
    THEN [entry |-> entry,
          result |-> <<FALSE, 0,
                       IF IntSeconds(window_seconds * TicksPerSecond
                                     - (t - entry.window_start)) > 1
                       THEN IntSeconds(window_seconds * TicksPerSecond
                                       - (t - entry.window_start))
                       ELSE 1>>]
    ELSE [entry |-> [entry EXCEPT !.count = @ + 1],
          result |-> <<TRUE, max_requests - (entry.count + 1), 0>>]

\* "Check limit" and "Increment count": the entry as left by the call and
\* the tuple (is_allowed, remaining, retry_after) returned.
CheckLimit(entry, t, max_requests, window_seconds) ==
    IF entry.count >= max_requests
    THEN [entry |-> entry,
          result |-> <<FALSE, 0,
                       IF IntSeconds(window_seconds * TicksPerSecond
                                     - (t - entry.window_start)) > 1
                       THEN IntSeconds(window_seconds * TicksPerSecond
                                       - (t - entry.window_start))
                       ELSE 1>>]
    ELSE [entry |-> [entry EXCEPT !.count = @ + 1],
          result |-> <<TRUE, max_requests - (entry.count + 1), 0>>]

\* The keys of the limiter and the limit each one is checked against:
\* (max_requests, window_seconds) of the dependency that builds the key.
RateLimitKeys == {"127.0.0.1:/test", "test-key"}

RateLimitOf(key) ==
    IF key = "127.0.0.1:/test"
    THEN [max_requests |-> 2, window_seconds |-> 60]
    ELSE [max_requests |-> 3, window_seconds |-> 1]

\* Time that passes between two calls of the limiter, in ticks: none, half
\* a second, just under a minute, just over the clean-up interval, just
\* over the clean-up age.
TimeSteps ==
    {0, 1, 60 * TicksPerSecond - 1, CleanupInterval * TicksPerSecond + 1,
     CleanupAge * TicksPerSecond + 1}


\* RedisRateLimiter(redis_url) as constructed: no client, no connection
\* attempted.
RedisRateLimiter(redis_url) ==
    [_redis_url |-> redis_url, _redis |-> None,
     _connection_attempted |-> FALSE]

\* _get_redis retrying the connection on every call while there is no
\* client.
_get_redis_Retry(self, ping) ==
    IF self._redis = None
    THEN [self |-> [self EXCEPT !._connection_attempted = TRUE,
                                !._redis = IF ping THEN Some("client")
                                           ELSE None],
          connects |-> 1]
    ELSE [self |-> self, connects |-> 0]

\* _get_redis: the limiter as the call leaves it (the client it returns is
\* its _redis) and the number of connection attempts made.  ping tells
\* whether from_url and ping() succeed.
_get_redis(self, ping) ==
    IF self._redis = None /\ ~self._connection_attempted
    THEN [self |-> [self EXCEPT !._connection_attempted = TRUE,
                                !._redis = IF ping THEN Some("client")
                                           ELSE None],
          connects |-> 1]
    ELSE [self |-> self, connects |-> 0]

\* A key of the Redis database holding a sorted set: the scores of its
\* members (the member of a request is str(now), its score now) and the
\* time at which the key expires.  No key: no members.
NoKey == [members |-> {}, expire_at |-> 0]

\* The sorted set of a key at time t: a key past its expiry is gone.
Live(entry, t) == IF t >= entry.expire_at THEN {} ELSE entry.members

zremrangebyscore(zset, min, max) == {x \in zset : ~(min <= x /\ x <= max)}

\* zrange(key, 0, 0, withscores=True): the score of the oldest member.
Oldest(zset) == CHOOSE x \in zset : \A y \in zset : x <= y

\* The fallback of check_rate_limit when there is no client or a command
\* raises.
AllowOnFailure(max_requests) == <<TRUE, max_requests - 1, 0>>

\* The try block of RedisRateLimiter.check_rate_limit at time t on the
\* sorted set of the key: the key as the pipeline leaves it and the tuple
\* returned.
SlidingWindow(zset, t, max_requests, window_seconds) ==
    LET window_start == t - window_seconds * TicksPerSecond
        kept == zremrangebyscore(zset, 0, window_start)
        current_count == Cardinality(kept)
        added == kept \cup {t}
        retry_after == IntSeconds(window_seconds * TicksPerSecond
                                  - (t - Oldest(added)))
    IN [entry |-> [members |-> added,
                   expire_at |-> t + (window_seconds + 1) * TicksPerSecond],
        result |-> IF current_count >= max_requests
                   THEN <<FALSE, 0, IF retry_after > 1 THEN retry_after ELSE 1>>
                   ELSE <<TRUE,
                          IF max_requests - current_count - 1 > 0
                          THEN max_requests - current_count - 1 ELSE 0,
                          0>>]

\* The keys checked through the Redis limiter and the limit of each.
RedisKeys == {"custom:user1", "127.0.0.1:/test"}

RedisLimitOf(key) ==
    IF key = "custom:user1"
    THEN [max_requests |-> 1, window_seconds |-> 60]
    ELSE [max_requests |-> 2, window_seconds |-> 60]

\* Time that passes between two calls: half a second, just under a minute,
\* a minute (time.time() differs from one call to the next).
RedisTimeSteps == {1, 60 * TicksPerSecond - 1, 60 * TicksPerSecond}

\* What happens to the commands of a call: they succeed; the pipeline
\* raises and nothing was applied; a command raises after the pipeline was
\* applied.
RedisOutcomes == {"ok", "error_before", "error_after"}


\* ------------------------------------------------------------------------
\* Runs and answers (app/models/forms.py, app/routes/runs.py)
\* ------------------------------------------------------------------------
\* Timestamps (datetime.now) are the number of the request that took them.

RunIds == 1..NumRuns

\* A row of the runs table; exists = FALSE: no row with the id.
Run(status, completed_at) ==
    [exists |-> TRUE, status |-> status, completed_at |-> completed_at]

NoRun == [exists |-> FALSE, status |-> "none", completed_at |-> None]

\* A row of the answers table.
Answer(run_id, page_id, field_name, value, saved_at) ==
    [run_id |-> run_id, page_id |-> page_id, field_name |-> field_name,
     value |-> value, saved_at |-> saved_at]

\* The request body of save_answers: answers is a dict of field name to
\* value.
AnswersSave(page_id, fields) == [page_id |-> page_id, answers |-> fields]

\* The checks of save_answers on the run row it loaded: the HTTP status
\* they raise, 200 when the request is let through.
SaveAnswersPrecondition_NoCompletedCheck(run) ==
    IF ~run.exists THEN 404 ELSE 200

SaveAnswersPrecondition(run) ==
    IF ~run.exists THEN 404
    ELSE IF run.status = "completed" THEN 422
    ELSE 200

\* The checks of complete_run.
CompleteRunPrecondition(run) ==
    IF ~run.exists THEN 404
    ELSE IF run.status = "completed" THEN 422
    ELSE 200

\* The rows selected by run_id, page_id and field_name.
Existing(rows, run_id, page_id, field_name) ==
    {i \in 1..Len(rows) : /\ rows[i].run_id = run_id
                          /\ rows[i].page_id = page_id
                          /\ rows[i].field_name = field_name}

\* SaveField adding a row whether or not one exists.
SaveField_AlwaysInsert(rows, run_id, page_id, field_name, value, saved_at) ==
    [raised |-> FALSE,
     rows |-> Append(rows, Answer(run_id, page_id, field_name, value,
                                  saved_at))]

\* The body of the loop of save_answers for one field: scalar_one_or_none
\* raises when more than one row is selected; an existing row gets the
\* value and the time, otherwise a row is added.
SaveField(rows, run_id, page_id, field_name, value, saved_at) ==
    LET existing == Existing(rows, run_id, page_id, field_name)
    IN IF Cardinality(existing) > 1
       THEN [raised |-> TRUE, rows |-> rows]
       ELSE IF existing # {}
       THEN [raised |-> FALSE,
             rows |-> [i \in 1..Len(rows) |->
                          IF i \in existing
                          THEN [rows[i] EXCEPT !.value = value,
                                               !.saved_at = saved_at]
                          ELSE rows[i]]]
       ELSE [raised |-> FALSE,
             rows |-> Append(rows, Answer(run_id, page_id, field_name, value,
                                          saved_at))]

\* The loop of save_answers over the items of data.answers, in their order.
RECURSIVE SaveFields(_, _, _, _, _)
SaveFields(rows, run_id, page_id, items, saved_at) ==
    IF items = <<>> THEN [raised |-> FALSE, rows |-> rows]
    ELSE LET first == SaveField(rows, run_id, page_id, items[1][1],
                                items[1][2], saved_at)
         IN IF first.raised THEN first
            ELSE SaveFields(first.rows, run_id, page_id, Tail(items), saved_at)

\* Request bodies: a page and up to two fields, each with one of two values.
PageIds == {"p1", "p2"}

FieldNames == {"role", "ai_confidence"}

FieldValues == {PyStr(<<"GP">>), PyInt(4)}

AnswerDicts ==
    {PyDict(<<>>)}
    \cup {PyDict(<< <<f, v>> >>) : f \in FieldNames, v \in FieldValues}
    \cup {PyDict(<< <<"role", v>>, <<"ai_confidence", w>> >>) :
             v \in FieldValues, w \in FieldValues}

Payloads == {AnswersSave(p, d) : p \in PageIds, d \in AnswerDicts}


\* ------------------------------------------------------------------------
\* State
\* ------------------------------------------------------------------------
\* session  the coaching_sessions row of the run (exists = FALSE: no row);
\*          the row committed first when the run has several
\* more_sessions  the further coaching_sessions rows of the run, each with
\*          the coach_turns rows of that session, in the order of commit
\* turns    the committed coach_turns rows of the session, by turn_number
\* req      per client, the request in flight: "idle", or "llm" while the
\*          handler awaits generate_response inside its transaction
\* last     the outcome of the most recently finished operation
\* call     the most recent application of a pure function on its own: the
\*          function, its arguments and what it returned
\* limiter  the InMemoryRateLimiter object
\* now      the clock (time.time()), in ticks
\* checked  the most recent call of the limiter, the number of calls made,
\*          per key the times at which a call was admitted, the keys whose
\*          most recent call is reset, and whether the call followed one
\* runs     the rows of the runs table, by id
\* answer_rows  the rows of the answers table, in the order of insertion
\* ran      the outcome of the most recent request to the run routes, with
\*          the tables as they were before it, the number of requests, and
\*          per run, page and field the value most recently saved

CoachingSession(pipeline_id, status, current_round, max_rounds) ==
    [exists |-> TRUE, pipeline_id |-> pipeline_id, status |-> status,
     current_round |-> current_round, max_rounds |-> max_rounds,
     total_tokens_used |-> 0, total_cost_usd |-> 0]

NoSession ==
    [exists |-> FALSE, pipeline_id |-> "none", status |-> "none",
     current_round |-> 0, max_rounds |-> 0, total_tokens_used |-> 0,
     total_cost_usd |-> 0]

CoachTurn(turn_number, role, content) ==
    [turn_number |-> turn_number, role |-> role, content |-> content]

\* A pipeline configuration without prompts.
NoPipeline == [system_prompt |-> <<>>, initial_prompt |-> <<>>]

IdleReq ==
    [pc |-> "idle", op |-> "none", user_message |-> <<>>,
     provider |-> "none", attempt |-> 0, sess |-> NoSession,
     next_turn |-> 0, flushed |-> <<>>, messages |-> <<>>,
     pipeline |-> NoPipeline, context |-> PyDict(<<>>)]

NoLast ==
    [op |-> "none", code |-> 0, cancelled |-> FALSE, raised |-> FALSE,
     result |-> None, generate_calls |-> 0, provider_calls |-> 0,
     surfaced |-> "none", llm |-> None, user_message |-> <<>>,
     before |-> NoSession, before_turns |-> <<>>, next_turn |-> 0,
     provider |-> "none", messages |-> <<>>,
     pipeline |-> NoPipeline, context |-> PyDict(<<>>)]

\* The pipeline row and the survey answers of the run (seeded data).
DEFAULT_PIPELINE ==
    [system_prompt |-> <<"w", "{{survey_responses}}">>,
     initial_prompt |-> <<"w">>]

\* The second seeded pipeline configuration.
FOCUSED_PIPELINE ==
    [system_prompt |-> <<"w", "{{survey_responses}}", "w">>,
     initial_prompt |-> <<"w">>]

\* A row of prompt_pipelines (its id is its name here).
PromptPipeline(name, pipeline, provider, model) ==
    [id |-> name, name |-> name, pipeline |-> pipeline,
     provider |-> provider, model |-> model]

\* The rows of prompt_pipelines, both active (seeded data).
PromptPipelines ==
    {PromptPipeline("default", DEFAULT_PIPELINE, "openai", "gpt-4-turbo"),
     PromptPipeline("focused", FOCUSED_PIPELINE, "anthropic",
                    "claude-3-5-sonnet-20241022")}

\* The values of request.pipeline_name: absent, "default", the name of a
\* row, and a name that no row has.
PipelineNames == {"none", "default", "focused", "unknown"}

\* select(PromptPipeline).where(id == pipeline_id) ... scalar_one().
PipelineById(pipeline_id) ==
    CHOOSE p \in PromptPipelines : p.id = pipeline_id

RunAnswers ==
    <<[page_id |-> "p1", field_name |-> "q1", value |-> PyStr(<<"w">>)]>>

\* A run as get_run_or_404 loads it, with answers_data built from its
\* answers (exists = FALSE: no such run).
LoadedRun(exists, status, answers_data) ==
    [exists |-> exists, status |-> status, answers_data |-> answers_data]

\* The run that is coached where the survey is left out: a completed
\* survey with the seeded answers.
SurveyRun == LoadedRun(TRUE, "completed", RunAnswers)

\* Inputs of the model.
UserMessages ==
    {<<"w">>, <<"harm">>, <<"w", "email">>, <<"harm", "email">>,
     <<"phone", "email">>}

\* Messages submitted through the routes.
RouteMessages == {<<"w">>, <<"harm">>, <<"w", "email">>}

Pipelines == {DEFAULT_PIPELINE, NoPipeline}

\* Pipelines handed to generate_initial_message: also one with only a system
\* prompt and one with only an initial prompt.
InitialPipelines ==
    Pipelines
    \cup {[system_prompt |-> <<"w">>, initial_prompt |-> <<>>],
          [system_prompt |-> <<>>,
           initial_prompt |-> <<"w", "{{survey_responses}}">>]}

Histories ==
    {<<>>,
     <<[role |-> "assistant", content |-> <<"w">>]>>,
     <<[role |-> "assistant", content |-> <<"w">>],
       [role |-> "coach", content |-> <<"w">>]>>}

\* Histories handed to build_messages on its own.
MessageHistories ==
    Histories
    \cup {<<[role |-> "assistant", content |-> <<"w">>],
            [role |-> "user", content |-> <<"w", "email">>]>>}

NoneInFlight == \A q \in Reqs : req[q].pc = "idle"

NoCall == [fn |-> "none", args |-> <<>>, result |-> <<>>]

NoCheck ==
    [op |-> "none", key |-> "none", at |-> 0, before |-> InMemoryRateLimiter(0),
     result |-> <<>>, calls |-> 0,
     admitted |-> [k \in RateLimitKeys |-> <<>>],
     was_reset |-> {}, after_reset |-> FALSE]

\* redis_limiter  the RedisRateLimiter object
\* redis_db   the sorted sets of the Redis database, by rate-limit key
\* redis_checked  the most recent call of the Redis limiter, the number of
\*          calls and of connection attempts made, per key the times at
\*          which a call was admitted, and whether a connection attempt or
\*          a command has failed so far
NoRedisCheck ==
    [op |-> "none", key |-> "none", at |-> 0, client |-> None,
     outcome |-> "none", result |-> <<>>, calls |-> 0, connects |-> 0,
     before_db |-> [k \in RedisKeys |-> NoKey],
     admitted |-> [k \in RedisKeys |-> <<>>], failed |-> FALSE]

NoRan ==
    [op |-> "none", run_id |-> 0, data |-> AnswersSave("none", PyDict(<<>>)),
     code |-> 0, at |-> 0, before_runs |-> [i \in RunIds |-> NoRun],
     before_answers |-> <<>>, calls |-> 0,
     latest |-> [k \in RunIds \X PageIds \X FieldNames |-> None]]

Init ==
    /\ session = NoSession
    /\ more_sessions = <<>>
    /\ turns = <<>>
    /\ req = [r \in Reqs |-> IdleReq]
    /\ last = NoLast
    /\ call = NoCall
    /\ limiter = InMemoryRateLimiter(0)
    /\ now = 0
    /\ checked = NoCheck
    /\ redis_limiter = RedisRateLimiter("redis://localhost:6379")
    /\ redis_db = [k \in RedisKeys |-> NoKey]
    /\ redis_checked = NoRedisCheck
    /\ runs = [i \in RunIds |-> NoRun]
    /\ answer_rows = <<>>
    /\ ran = NoRan

\* The outcome record of an operation that finished without reaching the
\* engine (rejected by a precondition check, or end_coaching).
Outcome(op, code, user_message) ==
    [NoLast EXCEPT !.op = op, !.code = code, !.user_message = user_message,
                   !.before = session, !.before_turns = turns,
                   !.next_turn = Len(turns) + 1]


\* ------------------------------------------------------------------------
\* Coaching routes (app/routes/coaching.py)
\* ------------------------------------------------------------------------

\* SendMessagePrecondition without the status check.
SendMessagePrecondition_NoStatusCheck(sess) ==
    IF ~sess.exists THEN 404
    ELSE IF sess.current_round >= sess.max_rounds THEN 400
    ELSE 200

\* The precondition checks of send_message on the session row it loaded:
\* the HTTP status they raise, 200 when the request is let through.
SendMessagePrecondition(sess) ==
    IF ~sess.exists THEN 404
    ELSE IF sess.status # "active" THEN 400
    ELSE IF sess.current_round >= sess.max_rounds THEN 400
    ELSE 200

\* get_run_or_404 on the runs table, and the answers_data the handlers
\* build from run.answers.
get_run_or_404(run_id) ==
    LET rows == SelectSeq(answer_rows, LAMBDA a : a.run_id = run_id)
    IN LoadedRun(runs[run_id].exists, runs[run_id].status,
                 [i \in 1..Len(rows) |->
                    [page_id |-> rows[i].page_id,
                     field_name |-> rows[i].field_name,
                     value |-> rows[i].value]])

\* select(CoachingSession).where(run_id == run_id) followed by
\* scalar_one_or_none(): raises MultipleResultsFound when the run has more
\* than one session row.
MultipleResultsFound == more_sessions # <<>>

\* The outcome record of a route left by MultipleResultsFound (the handler's
\* transaction rolls back, the client receives 500).
LookupRaises(op, user_message) ==
    [Outcome(op, 500, user_message)
        EXCEPT !.raised = TRUE, !.surfaced = "MultipleResultsFound"]

\* "Get pipeline" of start_coaching: the rows the lookup can return (none:
\* the handler raises 404).  A named pipeline is looked up by name; without
\* a name, or with "default", get_default_pipeline returns the first active
\* row by created_at descending, and both seeded rows are inserted by one
\* migration, so either can come first.
GetPipeline(pipeline_name) ==
    IF pipeline_name \notin {"none", "default"}
    THEN {p \in PromptPipelines : p.name = pipeline_name}
    ELSE PromptPipelines

\* PipelineEngine.llm_service: the service injected at construction, or
\* the one created for "openai" when none was injected.
llm_service(_llm_service) ==
    IF _llm_service = None THEN "openai" ELSE _llm_service[1]

\* The check of start_coaching for an existing session of the run.
StartCoachingPrecondition(sess) == IF sess.exists THEN 409 ELSE 200

\* The checks of end_coaching.
EndCoachingPrecondition(sess) ==
    IF ~sess.exists THEN 404
    ELSE IF sess.status = "completed" THEN 400
    ELSE 200

\* UpdateSession completing the session one round early (remaining <= 1).
UpdateSession_EarlyComplete(sess, exec_result) ==
    LET round == sess.current_round + 1
        remaining == sess.max_rounds - round
        used == exec_result.llm_response
    IN [sess EXCEPT
          !.current_round = round,
          !.total_tokens_used =
              IF used # None THEN @ + used[1].total_tokens ELSE @,
          !.total_cost_usd =
              IF used # None THEN @ + CostMicrodollars(used[1]) ELSE @,
          !.status = IF remaining <= 1 THEN "completed" ELSE @]

\* UpdateSession completing the session only past the budget (remaining < 0).
UpdateSession_LateComplete(sess, exec_result) ==
    LET round == sess.current_round + 1
        remaining == sess.max_rounds - round
        used == exec_result.llm_response
    IN [sess EXCEPT
          !.current_round = round,
          !.total_tokens_used =
              IF used # None THEN @ + used[1].total_tokens ELSE @,
          !.total_cost_usd =
              IF used # None THEN @ + CostMicrodollars(used[1]) ELSE @,
          !.status = IF remaining < 0 THEN "completed" ELSE @]

\* UpdateSession leaving the totals alone for a round whose output was
\* replaced by a fallback.
UpdateSession_SkipFallback(sess, exec_result) ==
    LET round == sess.current_round + 1
        remaining == sess.max_rounds - round
        used == IF exec_result.used_fallback THEN None
                ELSE exec_result.llm_response
    IN [sess EXCEPT
          !.current_round = round,
          !.total_tokens_used =
              IF used # None THEN @ + used[1].total_tokens ELSE @,
          !.total_cost_usd =
              IF used # None THEN @ + CostMicrodollars(used[1]) ELSE @,
          !.status = IF remaining <= 0 THEN "completed" ELSE @]

\* "Update session" and "Check if this was the last round" of send_message.
UpdateSession(sess, exec_result) ==
    LET round == sess.current_round + 1
        remaining == sess.max_rounds - round
        used == exec_result.llm_response
    IN [sess EXCEPT
          !.current_round = round,
          !.total_tokens_used =
              IF used # None THEN @ + used[1].total_tokens ELSE @,
          !.total_cost_usd =
              IF used # None THEN @ + CostMicrodollars(used[1]) ELSE @,
          !.status = IF remaining <= 0 THEN "completed" ELSE @]

\* "Update session metrics" of start_coaching.
InitialMetrics(sess, result) ==
    IF result.llm_response # None
    THEN [sess EXCEPT
            !.total_tokens_used = result.llm_response[1].total_tokens,
            !.total_cost_usd = CostMicrodollars(result.llm_response[1])]
    ELSE sess

\* The UPDATE of the session row at commit: the unit of work writes the
\* attributes whose value the handler changed on the object it loaded, and
\* leaves the other columns of the row as committed.
CommitSession(committed, loaded, updated) ==
    [f \in DOMAIN committed |->
        IF updated[f] # loaded[f] THEN updated[f] ELSE committed[f]]

\* TurnsAfterRollback keeping the flushed rows (the handler's transaction
\* committed instead of rolled back).
TurnsAfterRollback_Kept(committed, flushed) == committed \o flushed

\* The committed turn log after the transaction of a handler that had
\* flushed rows is left by an HTTPException: db.begin() rolls back.
TurnsAfterRollback(committed, flushed) == committed

\* SessionAfterRollback keeping the flushed session row.
SessionAfterRollback_Kept(committed, flushed) == flushed

\* The committed session row of the run after the transaction of a
\* start_coaching that had flushed a new session is left by an
\* HTTPException: db.begin() rolls back and the flushed row is gone.
SessionAfterRollback(committed, flushed) == committed

\* TurnsAfterCommit losing the rows flushed before the LLM call.
TurnsAfterCommit_NoFlushed(committed, flushed, added) == committed \o added

\* The committed turn log after a handler's transaction commits the rows it
\* flushed and the rows it added afterwards.
TurnsAfterCommit(committed, flushed, added) == committed \o flushed \o added

Finished(rq, code, result, llm, provider_calls, surfaced) ==
    [op |-> rq.op, code |-> code, cancelled |-> FALSE, raised |-> FALSE,
     result |-> result, generate_calls |-> Len(llm),
     provider_calls |-> provider_calls, surfaced |-> surfaced, llm |-> llm,
     user_message |-> rq.user_message, before |-> rq.sess,
     before_turns |-> turns, next_turn |-> rq.next_turn,
     provider |-> rq.provider, messages |-> rq.messages,
     pipeline |-> rq.pipeline, context |-> rq.context]

\* The INSERT of a session row and of its turns at commit.  The table has
\* no unique constraint on run_id: the row becomes the session of the run
\* when the run has none, and one more session of the run otherwise.
InsertSession(row, row_turns) ==
    IF ~session.exists
    THEN /\ session' = row
         /\ turns' = turns \o row_turns
         /\ UNCHANGED more_sessions
    ELSE /\ more_sessions' =
              Append(more_sessions, [row |-> row, turns |-> row_turns])
         /\ UNCHANGED <<session, turns>>

\* send_message from the return of execute_round to the end of the handler.
SendMessageComplete(r, rq, exec_result, llm, provider_calls, surfaced) ==
    /\ req' = [req EXCEPT ![r] = IdleReq]
    /\ UNCHANGED more_sessions
    /\ IF ~exec_result.success
       THEN /\ turns' = TurnsAfterRollback(turns, rq.flushed)
            /\ session' = session
            /\ last' = Finished(rq, 503, Some(exec_result), llm,
                                provider_calls, surfaced)
       ELSE /\ turns' = TurnsAfterCommit(turns, rq.flushed,
                            <<CoachTurn(rq.next_turn + 1, "assistant",
                                        exec_result.response[1])>>)
            /\ session' = CommitSession(session, rq.sess,
                                        UpdateSession(rq.sess, exec_result))
            /\ last' = Finished(rq, 200, Some(exec_result), llm,
                                provider_calls, surfaced)

\* start_coaching from the return of generate_initial_message on.
StartCoachingComplete(r, rq, result, llm, provider_calls, surfaced) ==
    /\ req' = [req EXCEPT ![r] = IdleReq]
    /\ IF ~result.success
       THEN /\ turns' = TurnsAfterRollback(turns, rq.flushed)
            /\ session' = SessionAfterRollback(session, rq.sess)
            /\ UNCHANGED more_sessions
            /\ last' = Finished(rq, 503, Some(result), llm, provider_calls,
                                surfaced)
       ELSE LET row == InitialMetrics(rq.sess, result)
                added == <<CoachTurn(1, "assistant", result.response[1])>>
            IN /\ InsertSession(row, TurnsAfterCommit(<<>>, rq.flushed, added))
               /\ last' = Finished(rq, 200, Some(result), llm,
                                   provider_calls, surfaced)

\* A direct call of the engine returns result to its caller.
EngineComplete(r, rq, result, llm, provider_calls, surfaced) ==
    /\ req' = [req EXCEPT ![r] = IdleReq]
    /\ last' = Finished(rq, 0, Some(result), llm, provider_calls, surfaced)
    /\ UNCHANGED <<session, more_sessions, turns>>

\* POST /runs/{run_id}/coach/start, up to the await of generate_response.
start_coaching(r, run, pipeline_name) ==
    /\ UNCHANGED <<functionVars, limiterVars, runVars, more_sessions>>
    /\ req[r].pc = "idle"
    /\ IF ~run.exists
       THEN /\ last' = Outcome("start_coaching", 404, <<>>)
            /\ UNCHANGED <<session, turns, req>>
       ELSE IF MultipleResultsFound
       THEN /\ last' = LookupRaises("start_coaching", <<>>)
            /\ UNCHANGED <<session, turns, req>>
       ELSE IF StartCoachingPrecondition(session) # 200
       THEN /\ last' = Outcome("start_coaching",
                               StartCoachingPrecondition(session), <<>>)
            /\ UNCHANGED <<session, turns, req>>
       ELSE IF GetPipeline(pipeline_name) = {}
       THEN /\ last' = Outcome("start_coaching", 404, <<>>)
            /\ UNCHANGED <<session, turns, req>>
       ELSE \E pipeline \in GetPipeline(pipeline_name) :
            /\ req' = [req EXCEPT ![r] =
                 [pc |-> "llm", op |-> "start_coaching",
                  user_message |-> <<>>, provider |-> llm_service(None),
                  attempt |-> 1,
                  sess |-> CoachingSession(pipeline.id, "active",
                                           InitialRound, MaxRounds),
                  next_turn |-> 1, flushed |-> <<>>,
                  messages |-> InitialMessages(pipeline.pipeline,
                                  create_context_from_run(run.answers_data)),
                  pipeline |-> pipeline.pipeline,
                  context |-> create_context_from_run(run.answers_data)]]
            /\ UNCHANGED <<session, turns, last>>

\* POST /runs/{run_id}/coach/message, up to the await of generate_response
\* (to the end of the handler when execute_round makes no LLM call).
send_message(r, run, message) ==
    /\ UNCHANGED <<functionVars, limiterVars, runVars, more_sessions>>
    /\ req[r].pc = "idle"
    /\ IF MultipleResultsFound
       THEN /\ last' = LookupRaises("send_message", message)
            /\ UNCHANGED <<session, turns, req>>
       ELSE IF SendMessagePrecondition(session) # 200
       THEN /\ last' = Outcome("send_message",
                               SendMessagePrecondition(session), message)
            /\ UNCHANGED <<session, turns, req>>
       ELSE LET history == [i \in 1..Len(turns) |->
                               [role |-> turns[i].role,
                                content |-> turns[i].content]]
                context == create_context_from_run(run.answers_data)
                next_turn == Len(turns) + 1
                pipeline == PipelineById(session.pipeline_id)
                plan == ExecuteRoundPlan(pipeline.pipeline, context, history,
                                         message)
                rq == [pc |-> "llm", op |-> "send_message",
                       user_message |-> message,
                       provider |-> llm_service(None),
                       attempt |-> 1, sess |-> session,
                       next_turn |-> next_turn,
                       flushed |-> <<CoachTurn(next_turn, "user", message)>>,
                       messages |-> plan.messages,
                       pipeline |-> pipeline.pipeline, context |-> context]
            IN CASE plan.step = "return" ->
                      SendMessageComplete(r, rq, plan.result, None, 0, "none")
                 [] plan.step = "raise" ->
                      /\ last' = [Finished(rq, 500, None, None, 0, "ValueError")
                                    EXCEPT !.raised = TRUE]
                      /\ turns' = TurnsAfterRollback(turns, rq.flushed)
                      /\ UNCHANGED <<session, req>>
                 [] plan.step = "call" ->
                      /\ req' = [req EXCEPT ![r] = rq]
                      /\ UNCHANGED <<session, turns, last>>

\* POST /runs/{run_id}/coach/end.
end_coaching(r) ==
    /\ UNCHANGED <<functionVars, limiterVars, runVars, more_sessions>>
    /\ req[r].pc = "idle"
    /\ last' = IF MultipleResultsFound
               THEN LookupRaises("end_coaching", <<>>)
               ELSE Outcome("end_coaching", EndCoachingPrecondition(session),
                            <<>>)
    /\ session' = IF ~MultipleResultsFound
                     /\ EndCoachingPrecondition(session) = 200
                  THEN [session EXCEPT !.status = "completed"]
                  ELSE session
    /\ UNCHANGED <<turns, req>>


\* ------------------------------------------------------------------------
\* Direct calls of the engine (as made by tests/test_pipeline.py), with an
\* injected client of either provider
\* ------------------------------------------------------------------------

EngineReq(op, provider, user_message, messages, pipeline, context) ==
    [pc |-> "llm", op |-> op, user_message |-> user_message,
     provider |-> provider, attempt |-> 1, sess |-> session,
     next_turn |-> Len(turns) + 1, flushed |-> <<>>, messages |-> messages,
     pipeline |-> pipeline, context |-> context]

\* PipelineEngine.execute_round, up to the await of generate_response.
execute_round(r, pipeline, context, conversation_history, user_message, provider) ==
    /\ UNCHANGED <<functionVars, limiterVars, runVars, more_sessions>>
    /\ req[r].pc = "idle"
    /\ LET plan == ExecuteRoundPlan(pipeline, context, conversation_history,
                                    user_message)
           rq == EngineReq("execute_round", provider, user_message,
                           plan.messages, pipeline, context)
       IN CASE plan.step = "return" ->
                  /\ last' = Finished(rq, 0, Some(plan.result), None, 0, "none")
                  /\ UNCHANGED <<session, turns, req>>
            [] plan.step = "raise" ->
                  /\ last' = [Finished(rq, 0, None, None, 0, "ValueError")
                                EXCEPT !.raised = TRUE]
                  /\ UNCHANGED <<session, turns, req>>
            [] plan.step = "call" ->
                  /\ req' = [req EXCEPT ![r] = rq]
                  /\ UNCHANGED <<session, turns, last>>

\* PipelineEngine.generate_initial_message, up to the await.
generate_initial_message(r, pipeline, context, provider) ==
    /\ UNCHANGED <<functionVars, limiterVars, runVars, more_sessions>>
    /\ req[r].pc = "idle"
    /\ req' = [req EXCEPT ![r] =
                 EngineReq("generate_initial_message", provider, <<>>,
                           InitialMessages(pipeline, context), pipeline,
                           context)]
    /\ UNCHANGED <<session, turns, last>>

\* The caller of generate_response resumes with its outcome llm.
Resume(r, rq, llm, provider_calls, surfaced) ==
    CASE rq.op = "start_coaching" ->
            StartCoachingComplete(r, rq, GenerateInitialTry(llm), Some(llm),
                                  provider_calls, surfaced)
      [] rq.op = "send_message" ->
            SendMessageComplete(r, rq, ExecuteRoundTry(llm), Some(llm),
                                provider_calls, surfaced)
      [] rq.op = "execute_round" ->
            EngineComplete(r, rq, ExecuteRoundTry(llm), Some(llm),
                           provider_calls, surfaced)
      [] rq.op = "generate_initial_message" ->
            EngineComplete(r, rq, GenerateInitialTry(llm), Some(llm),
                           provider_calls, surfaced)

\* One attempt of generate_response under its retry decorator: the function
\* body shapes the request; the provider call returns or raises (outcome);
\* the body converts an SDK error; tenacity retries or lets the call return /
\* raise to the engine.  The outcome record handed to the engine also holds
\* the native outcome of the last provider call, the request sent and the
\* exception raised.
generate_response(r, outcome) ==
    /\ UNCHANGED <<functionVars, limiterVars, runVars>>
    /\ req[r].pc = "llm"
    /\ LET rq == req[r]
           request == ProviderRequest(rq.provider, rq.messages)
           exc == ConvertException(rq.provider, outcome)
           decision == RetryDecision(exc, rq.attempt)
       IN IF outcome = "ok"
          THEN \E content \in LLMContents :
                  Resume(r, rq,
                         [kind |-> "ok",
                          response |-> Some(LLMResponse(content,
                                         "gpt-4-turbo", rq.provider,
                                         Len(rq.messages), Len(content))),
                          error |-> <<>>, native |-> outcome,
                          request |-> request, exception |-> None],
                         rq.attempt, "none")
          ELSE CASE decision = "retry" ->
                      /\ req' = [req EXCEPT ![r].attempt = @ + 1]
                      /\ UNCHANGED <<session, more_sessions, turns, last>>
                 [] decision = "raise" ->
                      Resume(r, rq,
                             [kind |-> "raise", response |-> None,
                              error |-> exc.message, native |-> outcome,
                              request |-> request, exception |-> Some(exc)],
                             rq.attempt, exc.class)
                 [] decision = "retry_error" ->
                      Resume(r, rq,
                             [kind |-> "raise", response |-> None,
                              error |-> <<"RetryError">>, native |-> outcome,
                              request |-> request,
                              exception |->
                                  Some(LLMException("RetryError",
                                           <<"RetryError">>, None, None,
                                           None))],
                             rq.attempt, "RetryError")

\* The client goes away while the handler awaits the LLM: the handler is
\* cancelled inside "async with db.begin()", which rolls back.
cancel(r) ==
    /\ UNCHANGED <<functionVars, limiterVars, runVars, more_sessions>>
    /\ req[r].pc = "llm"
    /\ req' = [req EXCEPT ![r] = IdleReq]
    /\ turns' = TurnsAfterRollback(turns, req[r].flushed)
    /\ session' = session
    /\ last' = [Finished(req[r], 0, None, None, req[r].attempt - 1, "none")
                  EXCEPT !.cancelled = TRUE, !.generate_calls = 1]

\* A session that is no longer pursued is marked abandoned (the status the
\* schema declares and the maintenance script deletes).
abandon ==
    /\ UNCHANGED <<functionVars, limiterVars, runVars, more_sessions>>
    /\ session.exists
    /\ session.status = "active"
    /\ session' = [session EXCEPT !.status = "abandoned"]
    /\ last' = Outcome("abandon", 0, <<>>)
    /\ UNCHANGED <<turns, req>>

Contexts == {create_context_from_run(RunAnswers), PyDict(<<>>)}

\* Operations of the coaching routes, run one at a time.
Next ==
    \/ \E r \in Reqs, n \in PipelineNames :
          NoneInFlight /\ start_coaching(r, SurveyRun, n)
    \/ \E r \in Reqs, m \in RouteMessages :
          NoneInFlight /\ send_message(r, SurveyRun, m)
    \/ \E r \in Reqs : NoneInFlight /\ end_coaching(r)
    \/ \E r \in Reqs, o \in ProviderOutcomes : generate_response(r, o)
    \/ \E r \in Reqs : cancel(r)
    \/ NoneInFlight /\ abandon

Spec == Init /\ [][Next]_vars

\* Direct calls of the engine, run one at a time.
NextEngine ==
    \/ \E r \in Reqs, p \in Pipelines, c \in Contexts, h \in Histories,
          m \in UserMessages, v \in LLMProvider :
          NoneInFlight /\ execute_round(r, p, c, h, m, v)
    \/ \E r \in Reqs, p \in InitialPipelines, c \in Contexts,
          v \in LLMProvider :
          NoneInFlight /\ generate_initial_message(r, p, c, v)
    \/ \E r \in Reqs, o \in ProviderOutcomes : generate_response(r, o)
    \/ \E r \in Reqs : cancel(r)

SpecEngine == Init /\ [][NextEngine]_vars

\* Messages submitted while another request may be in flight.
ConcurrentMessages == {<<"w">>}

\* Operations of the coaching routes with the requests of several clients
\* in flight at once: each handler works in its own database session and
\* transaction, on the rows it loaded when it started.
NextConcurrent ==
    \/ \E r \in Reqs :
          NoneInFlight /\ start_coaching(r, SurveyRun, "focused")
    \/ \E r \in Reqs, m \in ConcurrentMessages :
          send_message(r, SurveyRun, m)
    \/ \E r \in Reqs, o \in ProviderOutcomes : generate_response(r, o)
    \/ \E r \in Reqs : cancel(r)

SpecConcurrent == Init /\ [][NextConcurrent]_vars

\* Operations of the coaching routes with several start_coaching requests
\* for the run in flight at once; the other routes are called between them.
NextConcurrentStart ==
    \/ \E r \in Reqs : start_coaching(r, SurveyRun, "focused")
    \/ \E r \in Reqs, m \in ConcurrentMessages :
          NoneInFlight /\ send_message(r, SurveyRun, m)
    \/ \E r \in Reqs : NoneInFlight /\ end_coaching(r)
    \/ \E r \in Reqs, o \in ProviderOutcomes : generate_response(r, o)
    \/ \E r \in Reqs : cancel(r)

SpecConcurrentStart == Init /\ [][NextConcurrentStart]_vars


\* ------------------------------------------------------------------------
\* The pure functions of the safety filter, the template engine and the
\* engine, applied on their own (as by tests/test_pipeline.py): a behaviour
\* applies one function to one choice of arguments
\* ------------------------------------------------------------------------

\* The sequences over the set S of length at most n.
SeqsUpTo(S, n) == UNION {[1..k -> S] : k \in 0..n}

\* User inputs: every text of up to MaxInputLen spans.
SafetyInputs ==
    SeqsUpTo({"w", "harm", "phone", "email", "ssn", "card"}, MaxInputLen)
        \ {<<>>}

\* Templates: every text of up to MaxTemplateLen spans, fixed text or
\* placeholders.
Templates ==
    SeqsUpTo({"w", "{{survey_responses}}", "{{user}}", "{{user.name}}",
              "{{missing}}"}, MaxTemplateLen)

\* Templates with texts in double braces that are not dotted identifiers.
BraceTemplates ==
    SeqsUpTo({"w", "{{user.name}}", "{{a..b}}", "{{a.}}", "{{1x}}"},
             MaxInputLen)

\* Contexts handed to substitute: empty; user a mapping; user a string and a
\* None value; list and boolean values; the context of a run; a value that
\* itself holds the placeholder of another variable.
TemplateContexts ==
    {PyDict(<<>>),
     PyDict(<< <<"user", PyDict(<< <<"name", PyStr(<<"Alice">>)>> >>)>> >>),
     PyDict(<< <<"user", PyStr(<<"Bob">>)>>, <<"survey_responses", PyNone>> >>),
     PyDict(<< <<"user",
                 PyDict(<< <<"name", PyList(<<PyStr(<<"A">>), PyStr(<<"B">>)>>)>>,
                           <<"ready", PyBool(TRUE)>> >>)>> >>),
     create_context_from_run(RunAnswers),
     PyDict(<< <<"user", PyStr(<<"{{survey_responses}}", "w">>)>>,
               <<"survey_responses", PyStr(<<"SECRET">>)>> >>)}

Call_check_input(content) ==
    /\ call = NoCall
    /\ call' = [fn |-> "check_input", args |-> <<content>>,
                result |-> check_input(content)]
    /\ UNCHANGED <<coachingVars, limiterVars, runVars>>

Call_substitute(template, variables) ==
    /\ call = NoCall
    /\ call' = [fn |-> "substitute", args |-> <<template, variables>>,
                result |-> substitute(template, variables)]
    /\ UNCHANGED <<coachingVars, limiterVars, runVars>>

Call_extract_variables(template) ==
    /\ call = NoCall
    /\ call' = [fn |-> "extract_variables", args |-> <<template>>,
                result |-> extract_variables(template)]
    /\ UNCHANGED <<coachingVars, limiterVars, runVars>>

Call_build_messages(pipeline, context, conversation_history, user_message) ==
    /\ call = NoCall
    /\ call' = [fn |-> "build_messages",
                args |-> <<pipeline, context, conversation_history,
                           user_message>>,
                result |-> build_messages(pipeline, context,
                                          conversation_history, user_message)]
    /\ UNCHANGED <<coachingVars, limiterVars, runVars>>

Call_estimated_cost_usd(model, prompt_tokens, completion_tokens) ==
    /\ call = NoCall
    /\ call' = [fn |-> "estimated_cost_usd",
                args |-> <<model, prompt_tokens, completion_tokens>>,
                result |-> [prices |-> PricesOf(model),
                            cost |-> estimated_cost_usd(
                                        LLMResponse(<<"w">>, model, "openai",
                                                    prompt_tokens,
                                                    completion_tokens))]]
    /\ UNCHANGED <<coachingVars, limiterVars, runVars>>

NextFunctions ==
    \/ \E content \in SafetyInputs : Call_check_input(content)
    \/ \E t \in Templates \cup BraceTemplates, c \in TemplateContexts :
          Call_substitute(t, c)
    \/ \E t \in Templates \cup BraceTemplates : Call_extract_variables(t)
    \/ \E p \in Pipelines, c \in Contexts, h \in MessageHistories,
          m \in UserMessages : Call_build_messages(p, c, h, m)
    \/ \E model \in ModelNames, p \in 0..MaxTokens, c \in 0..MaxTokens :
          Call_estimated_cost_usd(model, p, c)

SpecFunctions == Init /\ [][NextFunctions]_vars


\* ------------------------------------------------------------------------
\* Calls of the in-memory rate limiter
\* ------------------------------------------------------------------------

\* InMemoryRateLimiter.check_rate_limit(key, max_requests, window_seconds),
\* called elapsed ticks after the previous call of the limiter.
check_rate_limit(key, max_requests, window_seconds, elapsed) ==
    /\ checked.calls < MaxCalls
    /\ LET t == now + elapsed
           cleaned == _cleanup_old_entries(limiter, t)
           entry == ResetWindow(EntryOf(cleaned, key, t), t, window_seconds)
           check == CheckLimit(entry, t, max_requests, window_seconds)
       IN /\ now' = t
          /\ limiter' =
                [cleaned EXCEPT !._limits =
                    [k \in DOMAIN cleaned._limits \cup {key} |->
                        IF k = key THEN check.entry ELSE cleaned._limits[k]]]
          /\ checked' =
                [op |-> "check_rate_limit", key |-> key, at |-> t,
                 before |-> limiter, result |-> check.result,
                 calls |-> checked.calls + 1,
                 admitted |->
                    IF check.result[1]
                    THEN [checked.admitted EXCEPT ![key] = Append(@, t)]
                    ELSE checked.admitted,
                 was_reset |-> checked.was_reset \ {key},
                 after_reset |-> key \in checked.was_reset]
    /\ UNCHANGED <<coachingVars, functionVars, runVars, redisVars>>

\* reset deleting the entry of every key.
reset_All(key) ==
    /\ checked.op # "reset"
    /\ limiter' = [limiter EXCEPT !._limits = [k \in {} |-> RateLimitEntry(0, 0)]]
    /\ checked' = [checked EXCEPT !.op = "reset", !.key = key, !.at = now,
                                  !.before = limiter, !.result = <<>>,
                                  !.admitted[key] = <<>>,
                                  !.was_reset = @ \cup {key},
                                  !.after_reset = FALSE]
    /\ UNCHANGED <<now, coachingVars, functionVars, runVars, redisVars>>

\* InMemoryRateLimiter.reset(key): the entry of the key is deleted, and
\* with it the window of the key.
reset(key) ==
    /\ checked.op # "reset"
    /\ limiter' =
          [limiter EXCEPT !._limits =
              [k \in DOMAIN limiter._limits \ {key} |-> limiter._limits[k]]]
    /\ checked' = [checked EXCEPT !.op = "reset", !.key = key, !.at = now,
                                  !.before = limiter, !.result = <<>>,
                                  !.admitted[key] = <<>>,
                                  !.was_reset = @ \cup {key},
                                  !.after_reset = FALSE]
    /\ UNCHANGED <<now, coachingVars, functionVars, runVars, redisVars>>

NextRateLimit ==
    \/ \E key \in RateLimitKeys, elapsed \in TimeSteps :
          check_rate_limit(key, RateLimitOf(key).max_requests,
                           RateLimitOf(key).window_seconds, elapsed)
    \/ \E key \in RateLimitKeys : reset(key)

SpecRateLimit == Init /\ [][NextRateLimit]_vars


\* ------------------------------------------------------------------------
\* Calls of the Redis-backed rate limiter
\* ------------------------------------------------------------------------

\* RedisRateLimiter.check_rate_limit(key, max_requests, window_seconds),
\* called elapsed ticks after the previous call; ping tells whether a
\* connection attempt succeeds, outcome what happens to the commands.
RedisRateLimiter_check_rate_limit(key, max_requests, window_seconds, elapsed, ping, outcome) ==
    /\ redis_checked.calls < MaxCalls
    /\ LET t == now + elapsed
           got == _get_redis(redis_limiter, ping)
           redis == got.self._redis
           window == SlidingWindow(Live(redis_db[key], t), t, max_requests,
                                   window_seconds)
           raised == redis # None /\ outcome # "ok"
           result == IF redis = None \/ raised
                     THEN AllowOnFailure(max_requests)
                     ELSE window.result
       IN /\ now' = t
          /\ redis_limiter' = got.self
          /\ redis_db' = IF redis = None \/ outcome = "error_before"
                         THEN redis_db
                         ELSE [redis_db EXCEPT ![key] = window.entry]
          /\ redis_checked' =
                [op |-> "check_rate_limit", key |-> key, at |-> t,
                 client |-> redis,
                 outcome |-> IF redis = None THEN "none" ELSE outcome,
                 result |-> result,
                 calls |-> redis_checked.calls + 1,
                 connects |-> redis_checked.connects + got.connects,
                 before_db |-> redis_db,
                 admitted |->
                    IF result[1]
                    THEN [redis_checked.admitted EXCEPT ![key] = Append(@, t)]
                    ELSE redis_checked.admitted,
                 failed |-> redis_checked.failed \/ redis = None \/ raised]
    /\ UNCHANGED <<coachingVars, functionVars, runVars, limiter, checked>>

NextRedis ==
    \E key \in RedisKeys, elapsed \in RedisTimeSteps, ping \in BOOLEAN,
       outcome \in RedisOutcomes :
       RedisRateLimiter_check_rate_limit(key, RedisLimitOf(key).max_requests,
                                         RedisLimitOf(key).window_seconds,
                                         elapsed, ping, outcome)

SpecRedis == Init /\ [][NextRedis]_vars


\* ------------------------------------------------------------------------
\* Run routes (app/routes/runs.py), one request at a time
\* ------------------------------------------------------------------------

\* The outcome record of a request to the run routes.
Ran(op, run_id, data, code) ==
    [op |-> op, run_id |-> run_id, data |-> data, code |-> code,
     at |-> ran.calls + 1, before_runs |-> runs, before_answers |-> answer_rows,
     calls |-> ran.calls + 1, latest |-> ran.latest]

\* POST /runs: a run is created in progress (the form exists).
create_run(run_id) ==
    /\ ran.calls < MaxRunOps
    /\ ~runs[run_id].exists
    /\ \A i \in 1..(run_id - 1) : runs[i].exists
    /\ runs' = [runs EXCEPT ![run_id] = Run("in_progress", None)]
    /\ ran' = Ran("create_run", run_id, NoRan.data, 201)
    /\ UNCHANGED <<answer_rows, coachingVars, functionVars, limiterVars>>

\* PATCH /runs/{run_id}/answers.
save_answers(run_id, data) ==
    /\ ran.calls < MaxRunOps
    /\ LET code == SaveAnswersPrecondition(runs[run_id])
           saved == SaveFields(answer_rows, run_id, data.page_id,
                               data.answers.value, ran.calls + 1)
       IN IF code # 200
          THEN /\ ran' = Ran("save_answers", run_id, data, code)
               /\ UNCHANGED answer_rows
          ELSE IF saved.raised
          THEN /\ ran' = Ran("save_answers", run_id, data, 500)
               /\ UNCHANGED answer_rows
          ELSE /\ ran' = [Ran("save_answers", run_id, data, 200)
                          EXCEPT !.latest =
                            [k \in DOMAIN ran.latest |->
                               IF /\ k[1] = run_id /\ k[2] = data.page_id
                                  /\ DictGet(data.answers, k[3]) # PyNone
                               THEN Some(DictGet(data.answers, k[3]))
                               ELSE ran.latest[k]]]
               /\ answer_rows' = saved.rows
    /\ UNCHANGED <<runs, coachingVars, functionVars, limiterVars>>

\* POST /runs/{run_id}/complete.
complete_run(run_id) ==
    /\ ran.calls < MaxRunOps
    /\ LET code == CompleteRunPrecondition(runs[run_id])
       IN /\ ran' = Ran("complete_run", run_id, NoRan.data, code)
          /\ runs' = IF code = 200
                     THEN [runs EXCEPT ![run_id] =
                             [@ EXCEPT !.status = "completed",
                                       !.completed_at = Some(ran.calls + 1)]]
                     ELSE runs
    /\ UNCHANGED <<answer_rows, coachingVars, functionVars, limiterVars>>

NextRuns ==
    \/ \E run_id \in RunIds : create_run(run_id)
    \/ \E run_id \in RunIds, data \in Payloads : save_answers(run_id, data)
    \/ \E run_id \in RunIds : complete_run(run_id)

SpecRuns == Init /\ [][NextRuns]_vars

\* The run whose survey and coaching are followed together.
CoachedRun == 1

\* The pages saved while the run is followed.
SurveyPayloads ==
    {AnswersSave("p1", PyDict(<< <<"role", PyStr(<<"GP">>)>> >>)),
     AnswersSave("p1", PyDict(<< <<"role", PyStr(<<"w">>)>> >>))}

\* The survey of a run and its coaching: the run routes and the coaching
\* routes on the same run, one coaching request at a time.
NextSurveyCoaching ==
    \/ create_run(CoachedRun)
    \/ \E data \in SurveyPayloads : save_answers(CoachedRun, data)
    \/ complete_run(CoachedRun)
    \/ \E r \in Reqs :
          NoneInFlight /\ start_coaching(r, get_run_or_404(CoachedRun),
                                         "focused")
    \/ \E r \in Reqs, m \in ConcurrentMessages :
          NoneInFlight /\ send_message(r, get_run_or_404(CoachedRun), m)
    \/ \E r \in Reqs, o \in ProviderOutcomes : generate_response(r, o)
    \/ \E r \in Reqs : cancel(r)

SpecSurveyCoaching == Init /\ [][NextSurveyCoaching]_vars


\* ------------------------------------------------------------------------
\* Properties
\* ------------------------------------------------------------------------

\* Successful message rounds of the session: its committed user turns.
CompletedRounds == Cardinality({i \in 1..Len(turns) : turns[i].role = "user"})

\* The round budget, for a budget of n message rounds: no more than n rounds
\* are committed; an active session is under budget and its next message is
\* let through; a successful round completes the session iff it is the n-th;
\* after n rounds the next submission is rejected.
RoundBudget(n) ==
    session.exists =>
      /\ CompletedRounds <= n
      /\ session.status = "active" =>
            CompletedRounds < n /\ SendMessagePrecondition(session) = 200
      /\ (last.op = "send_message" /\ last.code = 200) =>
            (session.status = "completed" <=> CompletedRounds = n)
      /\ CompletedRounds = n =>
            session.status = "completed" /\ SendMessagePrecondition(session) = 400

\* C1 as stated: a session created with max_rounds = N accepts N successful
\* message rounds, is completed after the N-th, and rejects the (N+1)-th.
C1_RoundBudgetAsStated == RoundBudget(session.max_rounds)

\* C1 amended: a session created by start_coaching (current_round = 1,
\* max_rounds = N) accepts N - 1 successful message rounds, is completed
\* after the (N-1)-th, and rejects the N-th submission.
C1_RoundBudget == RoundBudget(session.max_rounds - 1)

C1_Witness ==
    /\ last.op = "send_message" /\ last.code = 400
    /\ CompletedRounds = MaxRounds - 1
    /\ last.before.current_round = MaxRounds

\* C2: send_message on a session that is not active is rejected with an
\* error, makes no LLM call, appends no turn and leaves current_round,
\* status, total_tokens_used and total cost as they were.
C2_NoRoundsOnceNotActive ==
    (last.op = "send_message" /\ last.before.exists
        /\ last.before.status # "active") =>
      /\ last.code = 400
      /\ last.generate_calls = 0 /\ last.provider_calls = 0
      /\ last.result = None
      /\ turns = last.before_turns
      /\ session = last.before

C2_Witness ==
    /\ last.op = "send_message" /\ last.code = 400
    /\ last.before.status = "completed"
    /\ last.before.current_round < last.before.max_rounds

\* C3 as stated: end_coaching on a session that is completed or abandoned
\* is rejected and leaves the status as it was.
C3_TerminalAsStated ==
    (last.op = "end_coaching" /\ last.before.exists
        /\ last.before.status \in {"completed", "abandoned"}) =>
      last.code = 400 /\ session.status = last.before.status

\* C4 (state part): an existing session has 1 <= current_round <= max_rounds,
\* and current_round < max_rounds while it is active; right after a
\* successful start_coaching it is active with current_round = 1.
C4_SessionCounterState ==
    session.exists =>
      /\ 1 <= session.current_round
      /\ session.current_round <= session.max_rounds
      /\ session.status = "active" =>
            session.current_round < session.max_rounds
      /\ (last.op = "start_coaching" /\ last.code = 200) =>
            session.status = "active" /\ session.current_round = InitialRound

\* C4: the session counter invariant holds in every state and current_round
\* never decreases.
C4_SessionCounter ==
    /\ []C4_SessionCounterState
    /\ [][session'.current_round >= session.current_round]_vars

C4_Witness ==
    /\ last.op = "send_message" /\ last.code = 200
    /\ session.status = "completed"
    /\ session.current_round = session.max_rounds

\* C5: for a user message that check_input classifies as harmful_content,
\* execute_round returns success, used_fallback, the harmful-content
\* fallback as response, the input check as safety_check and no
\* llm_response, and generate_response is not invoked.
C5_FallbackBypass ==
    (last.op = "execute_round"
        /\ check_input(last.user_message).violation_type = "harmful_content") =>
      /\ ~last.raised /\ ~last.cancelled
      /\ last.result = Some(PipelineExecutionResult(TRUE,
                           get_fallback_response("harmful_content"), None,
                           Some(check_input(last.user_message)), None, TRUE))
      /\ last.generate_calls = 0 /\ last.provider_calls = 0

C5_Witness ==
    /\ last.op = "execute_round"
    /\ last.user_message = <<"harm", "email">>
    /\ last.result # None
    /\ last.result[1].used_fallback
    /\ last.result[1].response = Some(<<"FALLBACK_HARMFUL_CONTENT">>)

\* C6: when the LLM returns content that check_output classifies as unsafe,
\* execute_round returns success, used_fallback and the canned fallback of
\* that violation (not the model content), with the real llm_response and
\* the output check attached; when the content is safe it returns the model
\* content with used_fallback = false.
C6_UnsafeOutputReplaced ==
    (last.op = "execute_round" /\ last.llm # None /\ last.llm[1].kind = "ok") =>
      LET content == last.llm[1].response[1].content
          output_check == check_output(content)
      IN /\ last.result # None
         /\ last.result[1].success
         /\ last.result[1].llm_response = last.llm[1].response
         /\ last.result[1].safety_check = Some(output_check)
         /\ IF output_check.is_safe
            THEN /\ last.result[1].response = Some(content)
                 /\ ~last.result[1].used_fallback
            ELSE /\ last.result[1].response =
                        get_fallback_response(output_check.violation_type)
                 /\ last.result[1].response # Some(content)
                 /\ last.result[1].used_fallback

C6_Witness ==
    /\ last.op = "execute_round"
    /\ last.llm # None /\ last.llm[1].kind = "ok"
    /\ last.llm[1].response[1].content = <<"dx">>
    /\ last.result[1].response = Some(<<"FALLBACK_MEDICAL_ADVICE">>)

\* C7: when generate_response raises, execute_round returns success = false
\* with error set to the exception text, response, llm_response and
\* safety_check empty and used_fallback = false.
C7_FailureShape ==
    (last.op = "execute_round" /\ last.llm # None /\ last.llm[1].kind = "raise") =>
      /\ ~last.raised
      /\ last.result = Some(PipelineExecutionResult(FALSE, None, None, None,
                                Some(last.llm[1].error), FALSE))

C7_Witness ==
    /\ last.op = "execute_round"
    /\ last.llm # None /\ last.llm[1].kind = "raise"
    /\ last.surfaced = "RateLimitError"
    /\ last.result # None /\ ~last.result[1].success

\* C8: when execute_round returns success = false, or the request is
\* abandoned before commit, send_message persists nothing: the turn log and
\* the session are as before the request, the flushed user turn is not in
\* the log, and the message can be resubmitted with the same turn number.
C8_NoMutationOnFailure ==
    (last.op = "send_message" /\ (last.code = 503 \/ last.cancelled)) =>
      /\ turns = last.before_turns
      /\ session = last.before
      /\ \A i \in 1..Len(turns) : turns[i].turn_number # last.next_turn
      /\ Len(turns) + 1 = last.next_turn
      /\ SendMessagePrecondition(session) = 200

C8_Witness ==
    /\ last.op = "send_message" /\ last.code = 503
    /\ last.result # None /\ ~last.result[1].success
    /\ Len(turns) = 1

\* C9 as stated: execute_round and generate_initial_message never let an
\* exception propagate to their caller.
C9_TotalityAsStated == ~last.raised

\* C10 as stated: a rate-limit or transient API failure is surfaced by
\* generate_response only after 3 provider calls.
C10_RetryAsStated ==
    last.surfaced \in {"RateLimitError", "LLMError", "RetryError"} =>
      last.provider_calls = StopAfterAttempt

\* The engine's call of generate_response has finished (returned or raised).
GenerateResponseDone == last.llm # None

\* C11: when the provider call fails with an authentication error or an
\* invalid-request error, generate_response makes exactly one provider call
\* and raises AuthenticationError or InvalidRequestError respectively, with
\* either backend.
C11_DeterministicNotRetried ==
    (GenerateResponseDone
        /\ last.llm[1].native \in {"sdk.AuthenticationError",
                                    "sdk.BadRequestError"}) =>
      /\ last.provider \in LLMProvider
      /\ last.provider_calls = 1
      /\ last.llm[1].kind = "raise"
      /\ last.llm[1].exception # None
      /\ last.llm[1].exception[1].provider = Some(last.provider)
      /\ last.surfaced = last.llm[1].exception[1].class
      /\ last.surfaced =
            IF last.llm[1].native = "sdk.AuthenticationError"
            THEN "AuthenticationError" ELSE "InvalidRequestError"

C11_Witness ==
    /\ GenerateResponseDone
    /\ last.provider = "anthropic"
    /\ last.llm[1].native = "sdk.BadRequestError"
    /\ last.surfaced = "InvalidRequestError"
    /\ last.provider_calls = 1

\* C12 as stated: every failure raised by generate_response of either backend
\* is a RateLimitError (status 429, with a retry-after hint), an
\* AuthenticationError (401), an InvalidRequestError (400) or an LLMError
\* (with provider and status code); a native rate-limit error is raised as
\* RateLimitError; no other exception type reaches the caller.
C12_TaxonomyAsStated ==
    (GenerateResponseDone /\ last.llm[1].kind = "raise") =>
      LET exc == last.llm[1].exception[1]
      IN /\ exc.class \in {"RateLimitError", "AuthenticationError",
                           "InvalidRequestError", "LLMError"}
         /\ exc.provider = Some(last.provider)
         /\ exc.status_code # None
         /\ exc.class = "RateLimitError" =>
               exc.status_code = Some(429) /\ exc.retry_after # None
         /\ exc.class = "AuthenticationError" => exc.status_code = Some(401)
         /\ exc.class = "InvalidRequestError" => exc.status_code = Some(400)
         /\ last.llm[1].native = "sdk.RateLimitError" =>
               exc.class = "RateLimitError"

\* C14: in execute_round, when check_input reports personal_info the final
\* user message handed to the LLM client is the redacted content and not the
\* raw message; when check_input reports none it is the raw message.
C14_RedactedInputSent ==
    (last.op = "execute_round" /\ GenerateResponseDone) =>
      LET input_check == check_input(last.user_message)
          final == last.messages[Len(last.messages)]
      IN /\ last.messages # <<>>
         /\ final.role = "user"
         /\ input_check.violation_type = "personal_info" =>
               /\ final.content = input_check.redacted_content[1]
               /\ final.content # last.user_message
         /\ input_check.violation_type = "none" =>
               final.content = last.user_message

C14_Witness ==
    /\ last.op = "execute_round" /\ GenerateResponseDone
    /\ last.user_message = <<"w", "email">>
    /\ last.messages[Len(last.messages)] =
           Message("user", <<"w", "[REDACTED]">>)

\* C17 as stated: the Anthropic client passes as the system parameter the
\* content of the first system-role message of the list it is given, and in
\* the main list exactly the user and assistant messages in their order.
C17_AnthropicShapingAsStated ==
    (GenerateResponseDone /\ last.provider = "anthropic") =>
      LET request == last.llm[1].request
          systems == SelectSeq(last.messages, LAMBDA msg : msg.role = "system")
      IN /\ request.system =
               IF systems = <<>> THEN None ELSE Some(systems[1].content)
         /\ request.messages =
               SelectSeq(last.messages,
                         LAMBDA msg : msg.role \in {"user", "assistant"})

MatchesHarmful(content) == \E i \in 1..Len(content) : content[i] = "harm"

\* The spans matched by a personal-info pattern: phone, email, SSN-shaped,
\* card-shaped.
PersonalSpans == {"phone", "email", "ssn", "card"}

MatchesPersonal(content) ==
    \E i \in 1..Len(content) : content[i] \in PersonalSpans

\* C15: for an input that matches both a harmful-content pattern and a
\* personal-info pattern, check_input returns is_safe = false with violation
\* type harmful_content and no redacted content; personal_info is returned
\* only when no harmful pattern matches.
C15_SafetyPrecedence ==
    call.fn = "check_input" =>
      /\ (MatchesHarmful(call.args[1]) /\ MatchesPersonal(call.args[1])) =>
            /\ ~call.result.is_safe
            /\ call.result.violation_type = "harmful_content"
            /\ call.result.redacted_content = None
      /\ call.result.violation_type = "personal_info" =>
            ~MatchesHarmful(call.args[1])

C15_Witness ==
    /\ call.fn = "check_input"
    /\ call.args[1] = <<"email", "harm">>
    /\ call.result.violation_type = "harmful_content"
    /\ call.result.redacted_content = None

\* C16 as stated: for an input that matches a personal-info pattern and no
\* harmful pattern, check_input returns is_safe = true, violation type
\* personal_info and as redacted content the input with every span matched
\* by a personal-info pattern replaced by the redaction marker, so that no
\* such span is left in it.
C16_RedactionAsStated ==
    (call.fn = "check_input" /\ MatchesPersonal(call.args[1])
        /\ ~MatchesHarmful(call.args[1])) =>
      /\ call.result.is_safe
      /\ call.result.violation_type = "personal_info"
      /\ call.result.redacted_content =
            Some([i \in 1..Len(call.args[1]) |->
                     IF call.args[1][i] \in PersonalSpans THEN "[REDACTED]"
                     ELSE call.args[1][i]])
      /\ ~MatchesPersonal(call.result.redacted_content[1])

\* C18: substitute leaves every placeholder whose path does not resolve as
\* it is, in its place, and replaces the resolvable ones (seen in the result
\* when the inserted values hold no placeholder text themselves); it
\* returns for every template and context; substitute(t, {}) = t.
C18_UnresolvedPreserved ==
    call.fn = "substitute" =>
      LET template == call.args[1]
          variables == call.args[2]
          Placeholder(tok) == VariablePath(tok) # None
          Resolves(tok) ==
              /\ Placeholder(tok)
              /\ _get_nested_value(variables, VariablePath(tok)[1]).type
                    # "NoneType"
          Unresolved(tok) == Placeholder(tok) /\ ~Resolves(tok)
          Value(tok) ==
              _format_value(_get_nested_value(variables, VariablePath(tok)[1]))
          PlainValues ==
              \A i \in 1..Len(template) :
                 Resolves(template[i]) =>
                   \A j \in 1..Len(Value(template[i])) :
                      ~Placeholder(Value(template[i])[j])
      IN /\ PlainValues =>
               /\ SelectSeq(call.result, Unresolved)
                     = SelectSeq(template, Unresolved)
               /\ \A i \in 1..Len(call.result) : ~Resolves(call.result[i])
         /\ (\A i \in 1..Len(template) : ~Resolves(template[i])) =>
               call.result = template
         /\ variables = PyDict(<<>>) => call.result = template

C18_Witness ==
    /\ call.fn = "substitute"
    /\ call.args[1] = <<"{{user}}", "{{user.name}}", "{{survey_responses}}">>
    /\ DictGet(call.args[2], "user") = PyStr(<<"Bob">>)
    /\ call.result = <<"Bob", "{{user.name}}", "{{survey_responses}}">>

\* C19: extract_variables returns each distinct placeholder path of the
\* template exactly once, ordered by first occurrence.
C19_ExtractVariables ==
    call.fn = "extract_variables" =>
      LET template == call.args[1]
          Paths == {VariablePath(template[i])[1] :
                       i \in {j \in 1..Len(template) :
                                 VariablePath(template[j]) # None}}
          First(path) ==
              CHOOSE i \in 1..Len(template) :
                  /\ VariablePath(template[i]) = Some(path)
                  /\ \A j \in 1..(i - 1) :
                        VariablePath(template[j]) # Some(path)
      IN /\ {call.result[i] : i \in 1..Len(call.result)} = Paths
         /\ Len(call.result) = Cardinality(Paths)
         /\ \A i, j \in 1..Len(call.result) :
               i < j => First(call.result[i]) < First(call.result[j])

C19_Witness ==
    /\ call.fn = "extract_variables"
    /\ call.args[1] = <<"{{user.name}}", "{{missing}}", "{{user.name}}">>
    /\ call.result = << <<"user", ".", "name">>, <<"missing">> >>

\* The calls admitted for the key within its current window: the window of
\* a key starts at the window_start of its entry.
AdmittedInWindow(key) ==
    IF key \in DOMAIN limiter._limits
    THEN Cardinality({i \in 1..Len(checked.admitted[key]) :
                        checked.admitted[key][i]
                            >= limiter._limits[key].window_start})
    ELSE 0

\* C20: for any key, within one window at most max_requests calls of
\* check_rate_limit are admitted; the k-th admitted call of the window
\* returns (True, max_requests - k, 0); every further call in the window
\* returns (False, 0, retry_after) with retry_after >= 1 and leaves the
\* stored count as it was.
C20_InMemoryRateLimit ==
    /\ \A key \in RateLimitKeys :
          AdmittedInWindow(key) <= RateLimitOf(key).max_requests
    /\ checked.op = "check_rate_limit" =>
          LET key == checked.key
              max_requests == RateLimitOf(key).max_requests
              k == AdmittedInWindow(key)
          IN IF checked.result[1]
             THEN /\ 1 <= k /\ k <= max_requests
                  /\ checked.result = <<TRUE, max_requests - k, 0>>
             ELSE /\ k = max_requests
                  /\ checked.result[2] = 0
                  /\ checked.result[3] >= 1
                  /\ key \in DOMAIN checked.before._limits
                  /\ limiter._limits[key].count
                        = checked.before._limits[key].count

C20_Witness ==
    /\ checked.op = "check_rate_limit"
    /\ checked.key = "test-key"
    /\ checked.result = <<FALSE, 0, 1>>
    /\ checked.at = limiter._limits["test-key"].window_start + 1
    /\ limiter._limits["test-key"].count = 3

\* The count of the key in effect at time t: the stored count while the
\* window of its entry has not expired, 0 otherwise.
CountInEffect(self, key, t) ==
    IF /\ key \in DOMAIN self._limits
       /\ t - self._limits[key].window_start
             < RateLimitOf(key).window_seconds * TicksPerSecond
    THEN self._limits[key].count
    ELSE 0

\* What check_rate_limit on the key would return at time t.
AdmissionOutcome(self, key, t) ==
    CheckLimit(ResetWindow(EntryOf(_cleanup_old_entries(self, t), key, t), t,
                           RateLimitOf(key).window_seconds),
               t, RateLimitOf(key).max_requests,
               RateLimitOf(key).window_seconds).result

AnswersOf(rows, run_id) == SelectSeq(rows, LAMBDA a : a.run_id = run_id)

\* A request to a run that was completed before it is rejected with 422 and
\* leaves both tables as they were.
C22_RejectedState ==
    (ran.op \in {"save_answers", "complete_run"}
        /\ ran.before_runs[ran.run_id].status = "completed") =>
      /\ ran.code = 422
      /\ runs = ran.before_runs
      /\ answer_rows = ran.before_answers

\* C22: once complete_run has succeeded for a run, every later save_answers
\* and complete_run on that run is rejected with a 422 error, and the
\* answers, the status and completed_at of the run never change again.
C22_CompletedFrozen ==
    /\ []C22_RejectedState
    /\ [][\A id \in RunIds :
            runs[id].status = "completed" =>
              /\ runs'[id] = runs[id]
              /\ AnswersOf(answer_rows', id) = AnswersOf(answer_rows, id)]_vars

C22_Witness ==
    /\ ran.op = "save_answers" /\ ran.code = 422
    /\ ran.data.answers.value # <<>>
    /\ runs[ran.run_id].completed_at = Some(ran.at - 1)
    /\ AnswersOf(answer_rows, ran.run_id) # <<>>

\* The answer set of the table: run, page, field and value of every row.
AnswerSet(rows) ==
    {<<rows[i].run_id, rows[i].page_id, rows[i].field_name, rows[i].value>> :
        i \in 1..Len(rows)}

\* C23: there is at most one answer per (run_id, page_id, field_name), and
\* its value is the one from the most recent save of that field; a
\* successful save_answers leaves the rows of the fields it does not name
\* as they were and adds no row but for the fields it names; saving the
\* same payload again leaves the same answer set.
C23_AutosaveUpsert ==
    /\ \A k \in DOMAIN ran.latest :
          LET existing == Existing(answer_rows, k[1], k[2], k[3])
          IN IF ran.latest[k] = None THEN existing = {}
             ELSE /\ Cardinality(existing) = 1
                  /\ \A i \in existing :
                        answer_rows[i].value = ran.latest[k][1]
    /\ (ran.op = "save_answers" /\ ran.code = 200) =>
          LET Named(a) == /\ a.run_id = ran.run_id
                          /\ a.page_id = ran.data.page_id
                          /\ DictGet(ran.data.answers, a.field_name) # PyNone
              again == SaveFields(answer_rows, ran.run_id, ran.data.page_id,
                                  ran.data.answers.value, ran.at + 1)
          IN /\ SelectSeq(answer_rows, LAMBDA a : ~Named(a))
                   = SelectSeq(ran.before_answers, LAMBDA a : ~Named(a))
             /\ \A i \in 1..Len(ran.before_answers) :
                   ~Named(ran.before_answers[i]) =>
                      answer_rows[i] = ran.before_answers[i]
             /\ Len(SelectSeq(answer_rows, Named))
                   = Len(ran.data.answers.value)
             /\ ~again.raised
             /\ AnswerSet(again.rows) = AnswerSet(answer_rows)
             /\ Len(again.rows) = Len(answer_rows)
    /\ (ran.op = "save_answers" /\ ran.code # 200) =>
          /\ ran.code \in {404, 422}
          /\ answer_rows = ran.before_answers

\* A field saved before is saved again with another value, next to a field
\* of the same page that the save does not name.
C23_Witness ==
    /\ ran.op = "save_answers" /\ ran.code = 200
    /\ ran.data = AnswersSave("p1", PyDict(<< <<"role", PyInt(4)>> >>))
    /\ Len(ran.before_answers) = 2
    /\ ran.before_answers[1].field_name = "role"
    /\ ran.before_answers[1].page_id = "p1"
    /\ ran.before_answers[1].run_id = ran.run_id
    /\ ran.before_answers[1].value = PyStr(<<"GP">>)
    /\ ran.before_answers[2].field_name = "ai_confidence"
    /\ Len(answer_rows) = 2
    /\ answer_rows[1].value = PyInt(4)

\* The keys of the price table that the lower-cased model name contains.
ContainedKeys(model) ==
    {pricing[k][1] : k \in {j \in 1..Len(pricing) :
                               In(pricing[j][1], lower(model))}}

\* The prices the table gives for a key.
TablePrices(key) ==
    pricing[CHOOSE k \in 1..Len(pricing) : pricing[k][1] = key][2]

\* C24: for a fixed model name the estimated cost does not decrease when
\* prompt_tokens or completion_tokens increases, and is 0 when both are 0;
\* the prices used are those of the most specific key of the price table
\* that the model name contains (the one that contains every other key the
\* name contains), or the default prices when the name contains none.
C24_CostMonotonic ==
    call.fn = "estimated_cost_usd" =>
      LET model == call.args[1]
          Cost(p, c) ==
              estimated_cost_usd(LLMResponse(<<"w">>, model, "openai", p, c))
      IN /\ \A p \in 0..call.args[2], c \in 0..call.args[3] :
               Cost(p, c) <= call.result.cost
         /\ \A p \in call.args[2]..(MaxTokens + 1),
               c \in call.args[3]..(MaxTokens + 1) :
               call.result.cost <= Cost(p, c)
         /\ (call.args[2] = 0 /\ call.args[3] = 0) => call.result.cost = 0
         /\ call.result.cost
               = call.args[2] * call.result.prices[1]
                 + call.args[3] * call.result.prices[2]
         /\ call.result.prices[1] > 0 /\ call.result.prices[2] > 0
         /\ IF ContainedKeys(model) = {}
            THEN call.result.prices = <<1000, 3000>>
            ELSE \E key \in ContainedKeys(model) :
                    /\ \A other \in ContainedKeys(model) : In(other, key)
                    /\ call.result.prices = TablePrices(key)

\* A name with capitals that contains the keys gpt-4 and gpt-4-turbo.
C24_Witness ==
    /\ call.fn = "estimated_cost_usd"
    /\ Len(call.args[1]) = 19
    /\ Cardinality(ContainedKeys(call.args[1])) = 2
    /\ call.args[2] = 2 /\ call.args[3] = 1
    /\ call.result.prices = <<1000, 3000>>
    /\ call.result.cost = 5000

\* C25: generate_initial_message sends the safety system message, then the
\* rendered system prompt of the pipeline iff it defines one, then one user
\* message holding the rendered initial prompt (the built-in instruction
\* when the pipeline defines none), and nothing else; when the LLM call
\* fails it returns success = false.
C25_InitialMessage ==
    (last.op = "generate_initial_message" /\ GenerateResponseDone) =>
      LET pipeline == last.pipeline
          context == last.context
          k == IF pipeline.system_prompt # <<>> THEN 1 ELSE 0
          instruction == IF pipeline.initial_prompt # <<>>
                         THEN pipeline.initial_prompt
                         ELSE <<"DEFAULT_INITIAL_PROMPT">>
      IN /\ Len(last.messages) = 2 + k
         /\ last.messages[1] = Message("system", SAFETY_SYSTEM_PROMPT)
         /\ k = 1 => last.messages[2] =
                Message("system", substitute(pipeline.system_prompt, context))
         /\ last.messages[2 + k] =
                Message("user", substitute(instruction, context))
         /\ \A i \in 1..Len(last.messages) :
                last.messages[i].role # "assistant"
         /\ last.result # None
         /\ last.llm[1].kind = "raise" =>
                /\ ~last.result[1].success
                /\ last.result[1].response = None
                /\ last.result[1].error = Some(last.llm[1].error)
         /\ last.llm[1].kind = "ok" =>
                /\ last.result[1].success
                /\ last.result[1].response
                      = Some(last.llm[1].response[1].content)

\* The call fails for a pipeline with a system prompt and no initial prompt.
C25_Witness ==
    /\ last.op = "generate_initial_message" /\ GenerateResponseDone
    /\ last.pipeline = [system_prompt |-> <<"w">>, initial_prompt |-> <<>>]
    /\ last.messages[3] = Message("user", <<"DEFAULT_INITIAL_PROMPT">>)
    /\ last.llm[1].kind = "raise"
    /\ ~last.result[1].success

\* C26 as stated: with two send_message requests in flight at the same time
\* on one active session, no two turns have the same turn_number,
\* current_round is incremented once per committed round (never twice from
\* the same observed value), and no more rounds are committed than the
\* budget of the session allows.
C26_ConcurrencyAsStated ==
    session.exists =>
      /\ \A i, j \in 1..Len(turns) :
            i # j => turns[i].turn_number # turns[j].turn_number
      /\ session.current_round = InitialRound + CompletedRounds
      /\ CompletedRounds <= session.max_rounds - InitialRound

\* The turn log of an existing session: numbered 1, 2, ... without gaps, the
\* first turn by the assistant, then user and assistant turns in turn; 2k + 1
\* turns after k successful rounds.  A successful send_message appends a
\* user turn numbered n + 1 holding the message and an assistant turn
\* numbered n + 2 holding the response; a successful start_coaching leaves
\* the assistant's initial message as turn 1.
C27_TurnLogState ==
    /\ \A i \in 1..Len(turns) :
          /\ turns[i].turn_number = i
          /\ turns[i].role = IF i % 2 = 1 THEN "assistant" ELSE "user"
    /\ session.exists =>
          Len(turns) = 2 * (session.current_round - InitialRound) + 1
    /\ ~session.exists => turns = <<>>
    /\ (last.op = "send_message" /\ last.code = 200) =>
          LET n == Len(last.before_turns)
          IN turns = last.before_turns
                     \o <<CoachTurn(n + 1, "user", last.user_message),
                          CoachTurn(n + 2, "assistant",
                                    last.result[1].response[1])>>
    /\ (last.op = "start_coaching" /\ last.code = 200) =>
          turns = <<CoachTurn(1, "assistant", last.result[1].response[1])>>

\* C27: with requests handled one at a time the turn log of a session is
\* append-only, with strictly increasing and gap-free turn numbers from 1;
\* after start_coaching and k successful send_message calls it holds 2k + 1
\* turns (the initial assistant message, then per round a user turn and an
\* assistant turn); existing turns are never modified.
C27_TurnLogShape ==
    /\ []C27_TurnLogState
    /\ [][/\ Len(turns') >= Len(turns)
           /\ SubSeq(turns', 1, Len(turns)) = turns]_vars

C27_Witness ==
    /\ last.op = "send_message" /\ last.code = 200
    /\ Len(last.before_turns) = 3
    /\ Len(turns) = 5
    /\ turns[4] = CoachTurn(4, "user", <<"w", "email">>)
    /\ turns[5].role = "assistant" /\ turns[5].turn_number = 5

\* The canned fallback responses.
FallbackResponses ==
    {get_fallback_response(v)[1] :
        v \in {"medical_advice", "harmful_content", "off_topic"}}

\* C28 as stated: every response returned with success = true by
\* execute_round or generate_initial_message is a canned fallback or content
\* that check_output classifies as safe.
C28_OutputScreenedAsStated ==
    (last.op \in {"execute_round", "generate_initial_message"}
        /\ last.result # None /\ last.result[1].success) =>
      \/ last.result[1].response[1] \in FallbackResponses
      \/ check_output(last.result[1].response[1]).is_safe

\* C29 as stated: in every LLM request issued by send_message, every
\* user-role message, the current one or one replayed from the history of
\* earlier rounds, holds no text that check_input flags as harmful content
\* and no unredacted span matching a personal-info pattern.
C29_HistoryScreenedAsStated ==
    \A r \in Reqs :
        (req[r].pc = "llm" /\ req[r].op = "send_message") =>
          \A i \in 1..Len(req[r].messages) :
              req[r].messages[i].role = "user" =>
                /\ ~MatchesHarmful(req[r].messages[i].content)
                /\ ~MatchesPersonal(req[r].messages[i].content)

\* C30 as stated: for every LLM call made by execute_round or
\* generate_initial_message, with either backend and with or without a
\* system prompt of the pipeline, the safety system prompt is part of the
\* request sent to the provider: a system message of the list for the
\* OpenAI client, within the system parameter for the Anthropic client.
C30_SafetyPromptSentAsStated ==
    (GenerateResponseDone
        /\ last.op \in {"execute_round", "generate_initial_message"}) =>
      LET request == last.llm[1].request
      IN IF last.provider = "anthropic"
         THEN /\ request.system # None
              /\ \E i \in 1..Len(request.system[1]) :
                    SubSeq(request.system[1], i,
                           i + Len(SAFETY_SYSTEM_PROMPT) - 1)
                      = SAFETY_SYSTEM_PROMPT
         ELSE \E i \in 1..Len(request.messages) :
                 request.messages[i] = Message("system", SAFETY_SYSTEM_PROMPT)

\* The total_tokens of the LLM response that the provider returned to the
\* operation recorded in o (0 when the operation made no LLM call).
ResponseTokens(o) ==
    IF o.llm # None /\ o.llm[1].kind = "ok"
    THEN o.llm[1].response[1].total_tokens
    ELSE 0

\* C31 (state part): without a session both totals are 0, and they are never
\* negative.
C31_UsageState ==
    /\ session.total_tokens_used >= 0 /\ session.total_cost_usd >= 0
    /\ ~session.exists =>
          session.total_tokens_used = 0 /\ session.total_cost_usd = 0

\* C31 (step part): a step that commits an operation (it appends turns) adds
\* the total_tokens of the operation's LLM response to total_tokens_used,
\* also when the output was replaced by a fallback; every other step leaves
\* the totals alone; the totals never decrease; a round answered by the
\* harmful-input fallback appends two turns and advances current_round by 1
\* with both totals unchanged.
C31_UsageStep ==
    /\ session'.total_tokens_used >= session.total_tokens_used
    /\ session'.total_cost_usd >= session.total_cost_usd
    /\ IF turns' # turns
       THEN /\ last'.op \in {"start_coaching", "send_message"}
            /\ last'.code = 200
            /\ session'.total_tokens_used =
                  session.total_tokens_used + ResponseTokens(last')
       ELSE /\ session'.total_tokens_used = session.total_tokens_used
            /\ session'.total_cost_usd = session.total_cost_usd
    /\ (/\ last' # last
        /\ last'.op = "send_message" /\ last'.code = 200
        /\ check_input(last'.user_message).violation_type
              = "harmful_content") =>
          /\ Len(turns') = Len(turns) + 2
          /\ session'.current_round = session.current_round + 1
          /\ session'.total_tokens_used = session.total_tokens_used
          /\ session'.total_cost_usd = session.total_cost_usd

SessionsOfRun == (IF session.exists THEN 1 ELSE 0) + Len(more_sessions)

\* C32: one session per run.  In every state the run has at most one
\* coaching session, and a start_coaching that finds a session answers 409
\* and creates nothing, also with two start_coaching requests for the run
\* in flight at once.
C32_OneSessionPerRunAsStated ==
    /\ SessionsOfRun <= 1
    /\ (last.op = "start_coaching" /\ last.before.exists
          /\ last.result = None /\ ~last.cancelled) =>
         /\ last.code = 409
         /\ session = last.before /\ turns = last.before_turns

\* The most recent finished operation is a start_coaching whose
\* generate_initial_message returned success = false.
C33_FailedStart ==
    /\ last.op = "start_coaching"
    /\ last.result # None /\ ~last.result[1].success

\* C33: failed start leaves nothing behind.  When generate_initial_message
\* returns success = false, start_coaching answers 503 and neither the
\* session it had created nor any turn is persisted; a start_coaching for
\* the run that follows is not rejected as already existing.
C33_FailedStartLeavesNothing ==
    /\ [](C33_FailedStart =>
            /\ last.code = 503
            /\ ~session.exists /\ turns = <<>> /\ more_sessions = <<>>
            /\ StartCoachingPrecondition(session) = 200)
    /\ [][(C33_FailedStart /\ last' # last /\ last'.op = "start_coaching")
            => last'.code # 409]_vars

C33_Witness ==
    /\ C33_FailedStart
    /\ last.code = 503
    /\ last.before.exists
    /\ ~session.exists
    /\ \E r \in Reqs : req[r].pc = "llm" /\ req[r].op = "start_coaching"

\* C34: provider selection.  The LLM backend invoked by start_coaching and
\* send_message is the one named by the provider field of the session's
\* pipeline.
C34_ProviderSelectedAsStated ==
    (last.op \in {"start_coaching", "send_message"} /\ last.llm # None) =>
      /\ last.before.exists
      /\ last.provider = PipelineById(last.before.pipeline_id).provider

\* C35: coaching requires a completed survey.  start_coaching creates a
\* session only for a run whose status is completed, so while a session
\* exists the run is completed and its answers, from which the context of
\* every round is built, cannot change.
C35_CompletedSurveyAsStated ==
    /\ (last.op = "start_coaching" /\ last.code = 200) =>
          runs[CoachedRun].status = "completed"
    /\ session.exists => runs[CoachedRun].status = "completed"

\* identifier(.identifier)*: words that begin with a letter or an underscore,
\* joined by single dots.
DottedIdentifiers(inner) ==
    /\ Len(inner) % 2 = 1
    /\ \A i \in 1..Len(inner) :
          IF i % 2 = 1
          THEN inner[i] # "." /\ inner[i] \notin DigitFirst
          ELSE inner[i] = "."

\* C36: placeholder grammar.  extract_variables reports only paths made of
\* identifiers joined by single dots, and substitute leaves a template
\* without such a placeholder as it is.
C36_GrammarAsStated ==
    /\ call.fn = "extract_variables" =>
          \A i \in 1..Len(call.result) : DottedIdentifiers(call.result[i])
    /\ call.fn = "substitute" =>
          ((\A i \in 1..Len(call.args[1]) :
               Inner(call.args[1][i]) = None
               \/ ~DottedIdentifiers(Inner(call.args[1][i])[1]))
            => call.result = call.args[1])

\* What one placeholder or fixed text of a template becomes: the formatted
\* value at its path, as it is, or the token itself.
Piece(tok, variables) ==
    IF VariablePath(tok) # None
       /\ _get_nested_value(variables, VariablePath(tok)[1]).type # "NoneType"
    THEN _format_value(_get_nested_value(variables, VariablePath(tok)[1]))
    ELSE <<tok>>

\* The pieces of the tokens from position i on, one after the other.
RECURSIVE Pieces(_, _, _)
Pieces(template, variables, i) ==
    IF i > Len(template) THEN <<>>
    ELSE Piece(template[i], variables) \o Pieces(template, variables, i + 1)

\* C37: substitution is single-pass.  The result of substitute is the
\* template with each placeholder replaced by its formatted value exactly as
\* the context holds it: a value that contains {{x}} appears verbatim, and
\* the variable x is not expanded inside it.
C37_SinglePass ==
    call.fn = "substitute" =>
      /\ call.result = Pieces(call.args[1], call.args[2], 1)
      /\ \A i \in 1..Len(call.args[1]) :
            LET value == Piece(call.args[1][i], call.args[2])
            IN \E k \in 0..(Len(call.result) - Len(value)) :
                  SubSeq(call.result, k + 1, k + Len(value)) = value

C37_Witness ==
    /\ call.fn = "substitute"
    /\ call.args[1] = <<"w", "{{user}}", "{{survey_responses}}">>
    /\ call.result = <<"w", "{{survey_responses}}", "w", "SECRET">>

\* The calls of the key admitted during the window that precedes time t.
RedisAdmittedInWindow(key, t) ==
    LET times == redis_checked.admitted[key]
    IN Cardinality({i \in 1..Len(times) :
          times[i] > t - RedisLimitOf(key).window_seconds * TicksPerSecond
          /\ times[i] < t})

\* C38: Redis sliding window.  While Redis answers, a request of a key is
\* admitted exactly when fewer than max_requests requests of the key were
\* admitted during the preceding window_seconds; rejected requests do not
\* count.
C38_SlidingWindowAsStated ==
    (redis_checked.op = "check_rate_limit" /\ ~redis_checked.failed) =>
      (redis_checked.result[1]
         <=> RedisAdmittedInWindow(redis_checked.key, redis_checked.at)
               < RedisLimitOf(redis_checked.key).max_requests)

\* C39 (state part): a call made without a client, or whose command
\* raises, is admitted with (True, max_requests - 1, 0), and a call without
\* a client leaves the database alone; at most one connection attempt is
\* ever made.
C39_OutageState ==
    /\ redis_checked.connects <= 1
    /\ redis_checked.op = "check_rate_limit" =>
          /\ (redis_checked.client = None
                \/ redis_checked.outcome \in {"error_before", "error_after"})
               => redis_checked.result
                    = <<TRUE,
                        RedisLimitOf(redis_checked.key).max_requests - 1, 0>>
          /\ redis_checked.client = None => redis_db = redis_checked.before_db

=============================================================================
